---- MODULE Spec2Model ----
(***************************************************************************)
(* Model of sps.c, a batch spreadsheet editor: main() loads a command      *)
(* script and a table, processCommands() walks the script applying each    *)
(* command to the table through the live selection, and the table is       *)
(* written back to the file.                                               *)
(*                                                                         *)
(* A cell is a sequence of one-character strings, a row a sequence of      *)
(* cells, the table a sequence of rows.  Unsigned fields wrap modulo       *)
(* UIntMod.  Every handler is an operator that yields the SET of           *)
(* outcomes the build can produce: allocation may fail at any malloc, and  *)
(* an access outside the arrays is undefined behaviour whose outcomes are  *)
(* enumerated (the process dies, or the memory operation goes through).    *)
(***************************************************************************)
EXTENDS Integers, Sequences, FiniteSets, TLC

\* ------------------------------------------------------------------ bounds

\* Largest number of rows / columns of the table decoded from the file.
MaxRows == 2
MaxCols == 2
\* Largest number of cells of the table decoded from the file.
MaxCells == 2
\* Number of commands of the script.
MaxCmds == 3
\* Largest row / column count the table may grow to (guard of the growing steps).
MaxDim == 3
\* Allocation may fail at the n-th malloc of one handler call, n in 0..MaxAlloc.
MaxAlloc == 2

\* ------------------------------------------------------- program constants

LAST_ROW_COL_NUMBER == -1
BAD_ROW_COL_NUMBER == 0
NUMBER_OF_VARIABLES == 10
\* unsigned int wraps around.  The build's modulus is 2^32; TLC's integers
\* end at 2^31 - 1, so the model wraps at 2^16: every count of the model is
\* far below it unless it wrapped.
UIntMod == 65536

CLASSIC_COMMAND == TRUE
SELECTION_COMMAND == FALSE

\* (unsigned) conversion of an int
ToUnsigned(x) == x % UIntMod

Digits == {"0", "1", "2", "3", "4", "5", "6", "7", "8", "9"}

DigitVal(c) ==
  CASE c = "0" -> 0 [] c = "1" -> 1 [] c = "2" -> 2 [] c = "3" -> 3 [] c = "4" -> 4
    [] c = "5" -> 5 [] c = "6" -> 6 [] c = "7" -> 7 [] c = "8" -> 8 [] c = "9" -> 9

\* ------------------------------------------------------------ table model

EmptyCell == <<>>
EmptyRow == <<>>

\* An allocation budget: Unlimited, or the number of mallocs that still succeed.
Unlimited == -1
Budgets == {Unlimited} \cup (0..MaxAlloc)
CanAlloc(b, n) == b = Unlimited \/ b >= n
Spend(b, n) == IF b = Unlimited THEN Unlimited ELSE b - n

InsertAt(s, pos, x) == SubSeq(s, 1, pos - 1) \o <<x>> \o SubSeq(s, pos, Len(s))
RemoveAt(s, pos) == SubSeq(s, 1, pos - 1) \o SubSeq(s, pos + 1, Len(s))

Repeat(x, n) == [k \in 1..n |-> x]

\* Number of columns as the code reads it: table->rows[0]->size.
Width(t) == Len(t[1])

\* Every row has the same number of cells.
Rectangular(t) == \A r \in 1..Len(t) : Len(t[r]) = Len(t[1])


\* Result of a table operation: the table, the budget left, "ok" or the error.
Res(t, b, e) == [t |-> t, b |-> b, err |-> e]

\* createCell / createRow of addRowToTable's callers: one malloc unit each.
\* addRowToTable(table, row, position): insert before the 1-based position.
\* A position outside 1..size+1 stores the row pointer outside the live part
\* of the array and leaves a garbage slot inside it: the process dies.
addRowToTable(t, row, position) ==
  IF position >= 1 /\ position <= Len(t) + 1
  THEN [t |-> InsertAt(t, position, row), err |-> "ok"]
  ELSE [t |-> t, err |-> "crash"]

\* addCellToRow(row, cell, position), same discipline inside one row.
addCellToRow(row, cell, position) ==
  IF position >= 1 /\ position <= Len(row) + 1
  THEN [row |-> InsertAt(row, position, cell), err |-> "ok"]
  ELSE [row |-> row, err |-> "crash"]

\* addColumnToTable: one new empty cell per row, row by row; a failing
\* createCell returns the error with the rows before it already widened.
RECURSIVE AddColumnFrom(_, _, _, _)
AddColumnFrom(t, i, position, b) ==
  IF i > Len(t) THEN Res(t, b, "ok")
  ELSE IF ~CanAlloc(b, 1) THEN Res(t, b, "AllocationFailed")
  ELSE LET a == addCellToRow(t[i], EmptyCell, position)
       IN IF a.err # "ok" THEN Res(t, b, a.err)
          ELSE AddColumnFrom([t EXCEPT ![i] = a.row], i + 1, position, Spend(b, 1))

addColumnToTable(t, position, b) == AddColumnFrom(t, 1, position, b)

\* deleteRowFromTable(table, position): outcomes as a set of [t, err].
\* Inside 1..size the row is destructed and the rows after it move up.  For
\* position > size >= 1 destructRow() is applied to a slot that holds no live
\* row (the process dies, or the free goes through) and size-- drops the last
\* row.  With size = 0, or position = 0, the shifting loop runs off the array.
deleteRowFromTable(t, position) ==
  IF position >= 1 /\ position <= Len(t)
  THEN {[t |-> RemoveAt(t, position), err |-> "ok"]}
  ELSE IF position > Len(t) /\ Len(t) >= 1
  THEN {[t |-> t, err |-> "crash"], [t |-> SubSeq(t, 1, Len(t) - 1), err |-> "ok"]}
  ELSE {[t |-> t, err |-> "crash"]}

\* One row of deleteColumnFromTable: "in" inside the row, "out" when the
\* destructed slot is past the row's cells (the last cell is dropped by
\* size--), "dead" when the row is empty and size - 1 wraps around.
DeleteCellKind(row, columnNumber) ==
  IF columnNumber >= 1 /\ columnNumber <= Len(row) THEN "in"
  ELSE IF columnNumber > Len(row) /\ Len(row) >= 1 THEN "out"
  ELSE "dead"

DeleteCell(row, columnNumber) ==
  IF DeleteCellKind(row, columnNumber) = "in" THEN RemoveAt(row, columnNumber)
  ELSE SubSeq(row, 1, Len(row) - 1)

deleteColumnFromTable(t, columnNumber) ==
  LET kinds == {DeleteCellKind(t[i], columnNumber) : i \in 1..Len(t)}
      through == [i \in 1..Len(t) |-> DeleteCell(t[i], columnNumber)]
  IN IF "dead" \in kinds THEN {[t |-> t, err |-> "crash"]}
     ELSE IF "out" \in kinds THEN {[t |-> t, err |-> "crash"], [t |-> through, err |-> "ok"]}
     ELSE {[t |-> through, err |-> "ok"]}

\* alignRowSizes: the first widest row gives the width; every shorter row is
\* padded with empty cells, row by row; a failing createCell returns the error
\* with the table padded up to that point.
RECURSIVE BiggestRow(_, _, _)
BiggestRow(t, i, biggestRow) ==
  IF i > Len(t) THEN biggestRow
  ELSE BiggestRow(t, i + 1, IF Len(t[i]) > Len(t[biggestRow]) THEN i ELSE biggestRow)

RECURSIVE AlignFrom(_, _, _, _)
AlignFrom(t, i, w, b) ==
  IF i > Len(t) THEN Res(t, b, "ok")
  ELSE LET need == IF w > Len(t[i]) THEN w - Len(t[i]) ELSE 0
       IN IF CanAlloc(b, need)
          THEN AlignFrom([t EXCEPT ![i] = @ \o Repeat(EmptyCell, need)], i + 1, w, Spend(b, need))
          ELSE Res([t EXCEPT ![i] = @ \o Repeat(EmptyCell, b)], 0, "AllocationFailed")

alignRowSizes(t, b) ==
  IF Len(t) = 0 THEN Res(t, b, "ok")
  ELSE AlignFrom(t, 1, Len(t[BiggestRow(t, 2, 1)]), b)

\* resizeTable(table, rows, columns): cells are appended to the first row,
\* then empty rows are appended, then alignRowSizes() distributes the cells.
\* A failing createCell / createRow returns the error before the alignment;
\* the result of alignRowSizes() itself is dropped (line 1064).
\* The caller guarantees a first row (table->rows[0] is read).
resizeTable(t, rows, columns, b) ==
  LET needCols == IF columns > Len(t[1]) THEN columns - Len(t[1]) ELSE 0
      needRows == IF rows > Len(t) THEN rows - Len(t) ELSE 0
  IN IF ~CanAlloc(b, needCols)
     THEN Res([t EXCEPT ![1] = @ \o Repeat(EmptyCell, b)], 0, "AllocationFailed")
     ELSE LET t1 == [t EXCEPT ![1] = @ \o Repeat(EmptyCell, needCols)]
              b1 == Spend(b, needCols)
          IN IF ~CanAlloc(b1, needRows)
             THEN Res(t1 \o Repeat(EmptyRow, b1), 0, "AllocationFailed")
             ELSE LET a == alignRowSizes(t1 \o Repeat(EmptyRow, needRows), Spend(b1, needRows))
                  IN Res(a.t, a.b, "ok")

\* getCellValue: NULL outside the dimensions.  The bounds are computed in
\* unsigned arithmetic, so with no row, or with a first row of no cells, the
\* guard passes and a slot outside the arrays is read ("wild").
getCellValue(t, row, column) ==
  IF Len(t) = 0 THEN [kind |-> "wild"]
  ELSE IF ToUnsigned(Len(t) - 1) < ToUnsigned(row - 1) THEN [kind |-> "null"]
  ELSE IF ToUnsigned(Len(t[1]) - 1) < ToUnsigned(column - 1) THEN [kind |-> "null"]
  ELSE IF column > Len(t[row]) THEN [kind |-> "wild"]
  ELSE [kind |-> "val", val |-> t[row][column]]

\* setCellValue: no bounds check.  Inside the table the cell's buffer is
\* reallocated (one malloc unit) and the value copied.  Outside, the write
\* goes through a slot that holds no live cell: outcomes "crash" or "ok" with
\* the table's cells untouched.
InTable(t, row, column) ==
  row >= 1 /\ row <= Len(t) /\ column >= 1 /\ column <= Len(t[row])

setCellValue(t, row, column, newValue, b) ==
  IF InTable(t, row, column)
  THEN IF CanAlloc(b, 1)
       THEN {Res([t EXCEPT ![row][column] = newValue], Spend(b, 1), "ok")}
       ELSE {Res(t, b, "AllocationFailed")}
  ELSE {Res(t, b, "crash"), Res(t, b, "ok")}

\* trimRows: the largest index of a non-empty cell over all rows, then every
\* column to the right is deleted, passing j + 1 for the column j (1-based).
RECURSIVE ValidColumns(_, _)
ValidColumns(row, j) ==
  IF j = 0 THEN 0
  ELSE IF Len(row[j]) # 0 THEN j ELSE ValidColumns(row, j - 1)

RECURSIVE MostColumns(_, _)
MostColumns(t, i) ==
  IF i = 0 THEN 0
  ELSE LET v == ValidColumns(t[i], Len(t[i]))
           m == MostColumns(t, i - 1)
       IN IF v > m THEN v ELSE m

RECURSIVE TrimFrom(_, _, _)
TrimFrom(t, j, mostColumns) ==
  IF ~(j > mostColumns) THEN {[t |-> t, err |-> "ok"]}
  ELSE UNION {IF d.err = "ok" THEN TrimFrom(d.t, j - 1, mostColumns) ELSE {d}
              : d \in deleteColumnFromTable(t, j + 1)}

\* The calls of deleteColumnFromTable made by the loop of lines 1013-1015:
\* the table at the call and the column number passed.
RECURSIVE TrimCallsFrom(_, _, _)
TrimCallsFrom(t, j, mostColumns) ==
  IF ~(j > mostColumns) THEN {}
  ELSE {[t |-> t, columnNumber |-> j + 1]}
       \cup UNION {IF d.err = "ok" THEN TrimCallsFrom(d.t, j - 1, mostColumns) ELSE {}
                   : d \in deleteColumnFromTable(t, j + 1)}

TrimCalls(t) ==
  IF Len(t) = 0 THEN {} ELSE TrimCallsFrom(t, Len(t[1]), MostColumns(t, Len(t)))

trimRows(t) ==
  IF Len(t) = 0 THEN {[t |-> t, err |-> "crash"]}
  ELSE TrimFrom(t, Len(t[1]), MostColumns(t, Len(t)))

\* ------------------------------------------------------- strings, numbers

\* isValidNumber: the loop of lines 2289-2297.  A byte is examined only when
\* it is no digit AND it is the first byte other than '-'; then a first '.'
\* is accepted and anything else rejects the string.
RECURSIVE ValidFrom(_, _, _)
ValidFrom(number, i, decimalPoint) ==
  IF i > Len(number) THEN TRUE
  ELSE IF (number[i] \notin Digits) /\ (i = 1 /\ number[i] # "-")
       THEN IF number[i] = "." /\ ~decimalPoint
            THEN ValidFrom(number, i + 1, TRUE)
            ELSE FALSE
       ELSE ValidFrom(number, i + 1, decimalPoint)

isValidNumber(number) == ValidFrom(number, 1, FALSE)

\* Length of the longest run of digits of s that starts at index i.
RECURSIVE DigitRun(_, _)
DigitRun(s, i) ==
  IF i <= Len(s) /\ s[i] \in Digits THEN 1 + DigitRun(s, i + 1) ELSE 0

\* Value of the digits s[i..i+n-1].
RECURSIVE DigitsValue(_, _, _)
DigitsValue(s, i, n) ==
  IF n = 0 THEN 0 ELSE DigitsValue(s, i, n - 1) * 10 + DigitVal(s[i + n - 1])

\* Leading white space skipped by strtol / strtod.
RECURSIVE SkipSpace(_, _)
SkipSpace(s, i) == IF i <= Len(s) /\ s[i] = " " THEN SkipSpace(s, i + 1) ELSE i

\* strtol(s, NULL, 10): white space, an optional sign, the longest digit run;
\* 0 when there is no digit.
strtol(s) ==
  LET i0 == SkipSpace(s, 1)
      neg == i0 <= Len(s) /\ s[i0] = "-"
      i1 == IF i0 <= Len(s) /\ s[i0] \in {"-", "+"} THEN i0 + 1 ELSE i0
      n == DigitRun(s, i1)
      v == DigitsValue(s, i1, n)
  IN IF neg THEN 0 - v ELSE v

\* A double is kept as an exact fraction num / (Scale * den): strtod() yields
\* tenths (den = 1); only avg divides.  The cell texts of the model carry at
\* most one fractional digit and no exponent, so the conversion is exact.
Scale == 10

Num(n, d) == [num |-> n, den |-> d]

\* strtod(s, NULL) in tenths: white space, sign, digits, '.', digits.
strtod(s) ==
  LET i0 == SkipSpace(s, 1)
      neg == i0 <= Len(s) /\ s[i0] = "-"
      i1 == IF i0 <= Len(s) /\ s[i0] \in {"-", "+"} THEN i0 + 1 ELSE i0
      n == DigitRun(s, i1)
      ip == DigitsValue(s, i1, n)
      dot == i1 + n <= Len(s) /\ s[i1 + n] = "."
      m == IF dot THEN DigitRun(s, i1 + n + 1) ELSE 0
      fp == IF m > 0 THEN DigitVal(s[i1 + n + 1]) ELSE 0
      v == IF n + m = 0 THEN 0 ELSE ip * Scale + fp
  IN IF neg THEN 0 - v ELSE v

\* sprintf("%d")
RECURSIVE NatToStr(_)
NatToStr(n) ==
  LET d == CHOOSE c \in Digits : DigitVal(c) = n % 10
  IN IF n < 10 THEN <<d>> ELSE NatToStr(n \div 10) \o <<d>>

IntToStr(n) == IF n < 0 THEN <<"-">> \o NatToStr(0 - n) ELSE NatToStr(n)

RECURSIVE Pow10(_)
Pow10(k) == IF k = 0 THEN 1 ELSE 10 * Pow10(k - 1)

RECURSIVE NumDigits(_)
NumDigits(n) == IF n < 10 THEN 1 ELSE 1 + NumDigits(n \div 10)

\* Digits of q written with exactly f fractional digits, trailing zeros of
\* the fraction (and then the '.') removed, as %g does.
RECURSIVE StripZeros(_, _, _)
StripZeros(ip, frac, f) ==
  IF f = 0 THEN NatToStr(ip)
  ELSE IF frac % 10 = 0 THEN StripZeros(ip, frac \div 10, f - 1)
  ELSE LET fd == NatToStr(frac)
       IN NatToStr(ip) \o <<".">> \o Repeat("0", f - Len(fd)) \o fd

\* Number of zeros between the '.' and the first non-zero digit of a / d < 1.
RECURSIVE LeadZeros(_, _)
LeadZeros(a, d) == IF a = 0 \/ a * 10 >= d THEN 0 ELSE 1 + LeadZeros(a * 10, d)

\* sprintf("%g") of num / (Scale * den): six significant digits, rounded to
\* nearest, fixed notation (the model's values stay within 1e-4 .. 1e6).
FormatG(x) ==
  LET a == IF x.num < 0 THEN 0 - x.num ELSE x.num
      d == Scale * x.den
      f == IF a \div d >= 1 THEN 6 - NumDigits(a \div d) ELSE 6 + LeadZeros(a, d)
      q == (2 * a * Pow10(f) + d) \div (2 * d)
      body == StripZeros(q \div Pow10(f), q % Pow10(f), f)
  IN IF x.num < 0 /\ q # 0 THEN <<"-">> \o body ELSE body

\* strstr(hay, needle) != NULL
Contains(hay, needle) ==
  \E k \in 0..(Len(hay) - Len(needle)) : SubSeq(hay, k + 1, k + Len(needle)) = needle

\* ------------------------------------------------------ commands, context

\* convertTypesInCommandParams for one parameter: "_" and "-" give the LAST
\* flag, anything else its strtol value (0, the BAD flag, when it has none).
IntParam(str) ==
  IF str = <<"_">> \/ str = <<"-">> THEN LAST_ROW_COL_NUMBER ELSE strtol(str)

\* A command record (createCmd + the parsed fields + convertTypes...).
Cmd(type, name, p1, p2, p3, p4) ==
  [type |-> type, name |-> name,
   strParams |-> <<p1, p2, p3, p4>>,
   intParams |-> <<IntParam(p1), IntParam(p2), IntParam(p3), IntParam(p4)>>]

\* createSelection
createSelection ==
  [rowFrom |-> 1, rowTo |-> 1, colFrom |-> 1, colTo |-> 1, curRow |-> 0, curCol |-> 0]

\* The four fields updateSelectionBySelection copies.
Rect(s) == [rowFrom |-> s.rowFrom, rowTo |-> s.rowTo, colFrom |-> s.colFrom, colTo |-> s.colTo]

\* Only the rows are copied.
CopyRowsOnly(s, pattern) ==
  [s EXCEPT !.rowFrom = pattern.rowFrom, !.rowTo = pattern.rowTo]

updateSelectionBySelection(s, pattern) ==
  [s EXCEPT !.rowFrom = pattern.rowFrom, !.rowTo = pattern.rowTo,
            !.colFrom = pattern.colFrom, !.colTo = pattern.colTo]

\* createVars: vars->sel is malloc'ed and never written.  Until setVars
\* writes it, it is Uninitialized, and a read of it yields whatever the heap
\* holds: any of GarbageSel, zero included.
Uninitialized == [rowFrom |-> -1, rowTo |-> -1, colFrom |-> -1, colTo |-> -1]

GarbageValues == {0, 2}
GarbageSel ==
  [rowFrom : GarbageValues, rowTo : {2}, colFrom : {1}, colTo : {1}]

SavedSelection(v) == IF v.sel = Uninitialized THEN GarbageSel ELSE {v.sel}

createVars ==
  [sel |-> Uninitialized,
   data |-> [k \in 0..(NUMBER_OF_VARIABLES - 1) |-> EmptyCell],
   number |-> Num(0, 1)]

\* Outcome of one handler call.
Out(t, s, v, e) == [table |-> t, sel |-> s, vars |-> v, err |-> e]

\* The cells of a selection in the order of the two nested loops.
RowMajor(s) ==
  LET h == IF s.rowTo >= s.rowFrom THEN s.rowTo - s.rowFrom + 1 ELSE 0
      w == IF s.colTo >= s.colFrom THEN s.colTo - s.colFrom + 1 ELSE 0
  IN [k \in 1..(h * w) |-> <<s.rowFrom + ((k - 1) \div w), s.colFrom + ((k - 1) % w)>>]

\* ------------------------------------------------------ selection handlers

\* The corners are stored without the check R1 <= R2, C1 <= C2.
windowSelectUnchecked(cmd, t, s) ==
  [sel |-> [s EXCEPT !.rowFrom = ToUnsigned(cmd.intParams[1]),
                     !.rowTo = ToUnsigned(cmd.intParams[3]),
                     !.colFrom = ToUnsigned(cmd.intParams[2]),
                     !.colTo = ToUnsigned(cmd.intParams[4])],
   err |-> "ok"]

\* windowSelect ([R1,C1,R2,C2]): yields [sel, err].
windowSelect(cmd, t, s) ==
  LET row == cmd.intParams[1]
      col == cmd.intParams[2]
      rowSecond == cmd.intParams[3]
      colSecond == cmd.intParams[4]
  IN IF row > rowSecond \/ col > colSecond THEN [sel |-> s, err |-> "BadSelection"]
     ELSE IF (rowSecond # BAD_ROW_COL_NUMBER /\ colSecond = BAD_ROW_COL_NUMBER)
             \/ (rowSecond = BAD_ROW_COL_NUMBER /\ colSecond # BAD_ROW_COL_NUMBER)
     THEN [sel |-> s, err |-> "BadSelection"]
     ELSE IF colSecond = LAST_ROW_COL_NUMBER /\ Len(t) = 0 THEN [sel |-> s, err |-> "crash"]
     ELSE [sel |-> [s EXCEPT
                      !.rowFrom = ToUnsigned(row),
                      !.rowTo = IF rowSecond # LAST_ROW_COL_NUMBER THEN ToUnsigned(rowSecond) ELSE Len(t),
                      !.colFrom = ToUnsigned(col),
                      !.colTo = IF colSecond # LAST_ROW_COL_NUMBER THEN ToUnsigned(colSecond) ELSE Len(t[1])],
           err |-> "ok"]

\* The tail of standardSelect (lines 1573-1579): the table is resized when the
\* selection is bigger; the ErrorInfo of both resizeTable calls is dropped.
SelectResize(t, s, v, b) ==
  IF Len(t) = 0 THEN Out(t, s, v, "crash")
  ELSE LET r1 == IF s.rowTo > Len(t) THEN resizeTable(t, s.rowTo, Len(t[1]), b)
                 ELSE Res(t, b, "ok")
           r2 == IF s.colTo > Len(r1.t[1]) THEN resizeTable(r1.t, Len(r1.t), s.colTo, r1.b)
                 ELSE r1
       IN Out(r2.t, s, v, "ok")

\* standardSelect ([R,C], [R1,C1,R2,C2], [_])
standardSelect(cmd, t, s, v, b) ==
  LET row == cmd.intParams[1]
      col == cmd.intParams[2]
      rowSecond == cmd.intParams[3]
      colSecond == cmd.intParams[4]
  IN IF row = LAST_ROW_COL_NUMBER /\ col = BAD_ROW_COL_NUMBER
     THEN {IF saved.rowFrom = 0
           THEN Out(t, s, v, "NoSavedSelection")
           ELSE Out(t, updateSelectionBySelection(s, saved), v, "ok")
           : saved \in SavedSelection(v)}
     ELSE IF row = BAD_ROW_COL_NUMBER \/ col = BAD_ROW_COL_NUMBER
     THEN {Out(t, s, v, "BadSelection")}
     ELSE IF rowSecond # BAD_ROW_COL_NUMBER /\ colSecond # BAD_ROW_COL_NUMBER
     THEN LET w == windowSelect(cmd, t, s)
          IN IF w.err # "ok" THEN {Out(t, s, v, w.err)}
             ELSE {SelectResize(t, w.sel, v, b)}
     ELSE IF col = LAST_ROW_COL_NUMBER /\ Len(t) = 0 THEN {Out(t, s, v, "crash")}
     ELSE LET s1 == [s EXCEPT
                       !.rowFrom = IF row # LAST_ROW_COL_NUMBER THEN ToUnsigned(row) ELSE 1,
                       !.rowTo = IF row # LAST_ROW_COL_NUMBER THEN ToUnsigned(row) ELSE Len(t),
                       !.colFrom = IF col # LAST_ROW_COL_NUMBER THEN ToUnsigned(col) ELSE 1,
                       !.colTo = IF col # LAST_ROW_COL_NUMBER THEN ToUnsigned(col) ELSE Len(t[1])]
          IN {SelectResize(t, s1, v, b)}

\* The search loop of minMaxSelect over the cells cs[k..]: coords is <<>>
\* (the code's -1) until a numeric cell is met.  A NULL or wild cell value is
\* dereferenced by isValidNumber: "crash".
RECURSIVE MinMaxScan(_, _, _, _, _, _)
MinMaxScan(name, t, cs, k, coords, actualMinMax) ==
  IF k > Len(cs) THEN [coords |-> coords, err |-> "ok"]
  ELSE LET value == getCellValue(t, cs[k][1], cs[k][2])
       IN IF value.kind # "val" THEN [coords |-> coords, err |-> "crash"]
          ELSE IF isValidNumber(value.val)
          THEN LET number == strtod(value.val)
               IN IF coords = <<>> \/ (name = "min" /\ number < actualMinMax)
                                   \/ (name = "max" /\ number > actualMinMax)
                  THEN MinMaxScan(name, t, cs, k + 1, cs[k], number)
                  ELSE MinMaxScan(name, t, cs, k + 1, coords, actualMinMax)
          ELSE MinMaxScan(name, t, cs, k + 1, coords, actualMinMax)

minMaxSelect(cmd, t, s, v, b) ==
  IF s.rowFrom = 0 THEN {Out(t, s, v, "BadSelection")}
  ELSE LET r == MinMaxScan(cmd.name, t, RowMajor(s), 1, <<>>, 0)
       IN IF r.err # "ok" THEN {Out(t, s, v, r.err)}
          ELSE IF r.coords = <<>> THEN {Out(t, s, v, "BadSelection")}
          ELSE {Out(t, [s EXCEPT !.rowFrom = r.coords[1], !.rowTo = r.coords[1],
                                 !.colFrom = r.coords[2], !.colTo = r.coords[2]], v, "ok")}

\* The search goes on after a match: the last cell containing STR wins.
RECURSIVE FindLast(_, _, _, _)
FindLast(str, t, cs, k) ==
  IF k > Len(cs) THEN [coords |-> <<>>, err |-> "ok"]
  ELSE LET value == getCellValue(t, cs[k][1], cs[k][2])
           rest == FindLast(str, t, cs, k + 1)
       IN IF value.kind # "val" THEN [coords |-> <<>>, err |-> "crash"]
          ELSE IF rest.coords # <<>> \/ rest.err # "ok" THEN rest
          ELSE IF Contains(value.val, str) THEN [coords |-> cs[k], err |-> "ok"]
          ELSE rest

\* The search loop of findSelect: <<>> when no cell contains STR.
RECURSIVE FindScan(_, _, _, _)
FindScan(str, t, cs, k) ==
  IF k > Len(cs) THEN [coords |-> <<>>, err |-> "ok"]
  ELSE LET value == getCellValue(t, cs[k][1], cs[k][2])
       IN IF value.kind # "val" THEN [coords |-> <<>>, err |-> "crash"]
          ELSE IF Contains(value.val, str) THEN [coords |-> cs[k], err |-> "ok"]
          ELSE FindScan(str, t, cs, k + 1)

findSelect(cmd, t, s, v, b) ==
  IF cmd.strParams[1] = <<>> THEN {Out(t, s, v, "BadSelection")}
  ELSE LET r == FindScan(cmd.strParams[1], t, RowMajor(s), 1)
       IN IF r.err # "ok" THEN {Out(t, s, v, r.err)}
          ELSE IF r.coords = <<>> THEN {Out(t, s, v, "ok")}
          ELSE {Out(t, [s EXCEPT !.rowFrom = r.coords[1], !.rowTo = r.coords[1],
                                 !.colFrom = r.coords[2], !.colTo = r.coords[2]], v, "ok")}

\* ------------------------------------------------------- mutation handlers

\* The row is inserted and the table is not aligned afterwards.
InsertRowUnaligned(t, s, v, position, b) ==
  IF ~CanAlloc(b, 1) THEN {Out(t, s, v, "AllocationFailed")}
  ELSE LET a == addRowToTable(t, EmptyRow, position)
       IN {Out(a.t, s, v, a.err)}

\* irow / arow: createRow (one malloc unit), addRowToTable, alignRowSizes.
InsertRow(t, s, v, position, b) ==
  IF ~CanAlloc(b, 1) THEN {Out(t, s, v, "AllocationFailed")}
  ELSE LET a == addRowToTable(t, EmptyRow, position)
       IN IF a.err # "ok" THEN {Out(t, s, v, a.err)}
          ELSE LET r == alignRowSizes(a.t, Spend(b, 1))
               IN {Out(r.t, s, v, r.err)}

irow(cmd, t, s, v, b) == InsertRow(t, s, v, s.curRow, b)

arow(cmd, t, s, v, b) == InsertRow(t, s, v, s.curRow + 1, b)

\* drow deleting the row below the cursor.
drowBelow(cmd, t, s, v, b) ==
  {Out(d.t, s, v, d.err) : d \in deleteRowFromTable(t, s.curRow + 1)}

drow(cmd, t, s, v, b) ==
  {Out(d.t, s, v, d.err) : d \in deleteRowFromTable(t, s.curRow)}

icol(cmd, t, s, v, b) ==
  LET r == addColumnToTable(t, s.curCol, b) IN {Out(r.t, s, v, r.err)}

acol(cmd, t, s, v, b) ==
  LET r == addColumnToTable(t, s.curCol + 1, b) IN {Out(r.t, s, v, r.err)}

dcol(cmd, t, s, v, b) ==
  {Out(d.t, s, v, d.err) : d \in deleteColumnFromTable(t, s.curCol)}

setEdit(cmd, t, s, v, b) ==
  {Out(r.t, s, v, r.err) : r \in setCellValue(t, s.curRow, s.curCol, cmd.strParams[1], b)}

clearEdit(cmd, t, s, v, b) ==
  {Out(r.t, s, v, r.err) : r \in setCellValue(t, s.curRow, s.curCol, EmptyCell, b)}

\* swapEdit: the temporary copy is one malloc unit; strlen() of a NULL current
\* cell is a "crash".
swapEdit(cmd, t, s, v, b) ==
  LET argRow == cmd.intParams[1]
      argCol == cmd.intParams[2]
      selCell == getCellValue(t, s.curRow, s.curCol)
      argCell == getCellValue(t, argRow, argCol)
  IN IF argRow < 1 \/ argCol < 1 THEN {Out(t, s, v, "BadArgumentCell")}
     ELSE IF selCell.kind = "wild" THEN {Out(t, s, v, "crash")}
     ELSE IF argCell.kind = "null" THEN {Out(t, s, v, "BadArgumentCell")}
     ELSE IF argCell.kind = "wild" \/ selCell.kind = "null" THEN {Out(t, s, v, "crash")}
     ELSE IF ~CanAlloc(b, 1) THEN {Out(t, s, v, "AllocationFailed")}
     ELSE UNION {IF r1.err # "ok" THEN {Out(r1.t, s, v, r1.err)}
                 ELSE {Out(r2.t, s, v, r2.err)
                       : r2 \in setCellValue(r1.t, argRow, argCol, selCell.val, r1.b)}
                 : r1 \in setCellValue(t, s.curRow, s.curCol, argCell.val, Spend(b, 1))}

\* sumAvgEdit: the accumulator is zeroed on the first cell of the selection;
\* a cell that is no valid number returns at once (line 2023); the result is
\* written on the last cell of the selection.
sumAvgEdit(cmd, t, s, v, b) ==
  LET argRow == cmd.intParams[1]
      argCol == cmd.intParams[2]
      n0 == IF s.curRow = s.rowFrom /\ s.curCol = s.colFrom THEN Num(0, 1) ELSE v.number
      v0 == [v EXCEPT !.number = n0]
      selCell == getCellValue(t, s.curRow, s.curCol)
      n1 == Num(n0.num + strtod(selCell.val) * n0.den, n0.den)
      area == ToUnsigned(ToUnsigned(s.rowTo - s.rowFrom + 1) * ToUnsigned(s.colTo - s.colFrom + 1))
      n2 == IF cmd.name = "avg" THEN Num(n1.num, n1.den * area) ELSE n1
  IN IF argRow < 1 \/ argCol < 1 THEN {Out(t, s, v, "BadArgumentCell")}
     ELSE IF selCell.kind # "val" THEN {Out(t, s, v0, "crash")}
     ELSE IF ~isValidNumber(selCell.val) THEN {Out(t, s, v0, "ok")}
     ELSE IF s.curRow = s.rowTo /\ s.curCol = s.colTo
     THEN {Out(r.t, s, [v EXCEPT !.number = n2], r.err)
           : r \in setCellValue(t, argRow, argCol, FormatG(n2), b)}
     ELSE {Out(t, s, [v EXCEPT !.number = n1], "ok")}

\* countEdit's increment step taken for every cell, empty ones included.
CountEveryCell(cmd, t1, s, v, b1) ==
  LET argRow == cmd.intParams[1]
      argCol == cmd.intParams[2]
      selCell == getCellValue(t1, s.curRow, s.curCol)
      argCell == getCellValue(t1, argRow, argCol)
  IN IF selCell.kind # "val" THEN {Out(t1, s, v, "crash")}
     ELSE IF argCell.kind = "null" THEN {Out(t1, s, v, "BadArgumentCell")}
     ELSE IF argCell.kind = "wild" THEN {Out(t1, s, v, "crash")}
     ELSE {Out(r.t, s, v, r.err)
           : r \in setCellValue(t1, argRow, argCol, IntToStr(strtol(argCell.val) + 1), b1)}

\* The second half of countEdit (lines 2082-2101), on the table t1.
CountIncrement(cmd, t1, s, v, b1) ==
  LET argRow == cmd.intParams[1]
      argCol == cmd.intParams[2]
      selCell == getCellValue(t1, s.curRow, s.curCol)
      argCell == getCellValue(t1, argRow, argCol)
  IN IF selCell.kind # "val" THEN {Out(t1, s, v, "crash")}
     ELSE IF selCell.val = <<>> THEN {Out(t1, s, v, "ok")}
     ELSE IF argCell.kind = "null" THEN {Out(t1, s, v, "BadArgumentCell")}
     ELSE IF argCell.kind = "wild" THEN {Out(t1, s, v, "crash")}
     ELSE {Out(r.t, s, v, r.err)
           : r \in setCellValue(t1, argRow, argCol, IntToStr(strtol(argCell.val) + 1), b1)}

countEdit(cmd, t, s, v, b) ==
  LET argRow == cmd.intParams[1]
      argCol == cmd.intParams[2]
  IN IF argRow < 1 \/ argCol < 1 THEN {Out(t, s, v, "BadArgumentCell")}
     ELSE IF s.curRow = s.rowFrom /\ s.curCol = s.colFrom
     THEN UNION {IF r.err # "ok" THEN {Out(r.t, s, v, r.err)}
                 ELSE CountIncrement(cmd, r.t, s, v, r.b)
                 : r \in setCellValue(t, argRow, argCol, <<"0">>, b)}
     ELSE CountIncrement(cmd, t, s, v, b)

lenEdit(cmd, t, s, v, b) ==
  LET argRow == cmd.intParams[1]
      argCol == cmd.intParams[2]
      selCell == getCellValue(t, s.curRow, s.curCol)
  IN IF argRow < 1 \/ argCol < 1 THEN {Out(t, s, v, "BadArgumentCell")}
     ELSE IF selCell.kind # "val" THEN {Out(t, s, v, "crash")}
     ELSE {Out(r.t, s, v, r.err)
           : r \in setCellValue(t, argRow, argCol, IntToStr(Len(selCell.val)), b)}

\* ------------------------------------------------------- variable handlers

\* The parameter check of def / use / inc: exactly '_' and one digit.
IsVarName(str) == Len(str) = 2 /\ str[1] = "_" /\ str[2] \in Digits

defVars(cmd, t, s, v, b) ==
  LET selCell == getCellValue(t, s.curRow, s.curCol)
  IN IF ~IsVarName(cmd.strParams[1]) THEN {Out(t, s, v, "BadVariable")}
     ELSE IF selCell.kind # "val" THEN {Out(t, s, v, "crash")}
     ELSE IF ~CanAlloc(b, 1) THEN {Out(t, s, v, "AllocationFailed")}
     ELSE {Out(t, s, [v EXCEPT !.data[DigitVal(cmd.strParams[1][2])] = selCell.val], "ok")}

useVars(cmd, t, s, v, b) ==
  IF ~IsVarName(cmd.strParams[1]) THEN {Out(t, s, v, "BadVariable")}
  ELSE {Out(r.t, s, v, r.err)
        : r \in setCellValue(t, s.curRow, s.curCol, v.data[DigitVal(cmd.strParams[1][2])], b)}

\* incVars adding 2.0 in place of 1.0.
incVarsByTwo(cmd, t, s, v, b) ==
  IF ~IsVarName(cmd.strParams[1]) THEN {Out(t, s, v, "BadVariable")}
  ELSE IF ~CanAlloc(b, 1) THEN {Out(t, s, v, "AllocationFailed")}
  ELSE LET k == DigitVal(cmd.strParams[1][2])
       IN {Out(t, s, [v EXCEPT !.data[k] = FormatG(Num(strtod(v.data[k]) + 2 * Scale, 1))], "ok")}

incVars(cmd, t, s, v, b) ==
  IF ~IsVarName(cmd.strParams[1]) THEN {Out(t, s, v, "BadVariable")}
  ELSE IF ~CanAlloc(b, 1) THEN {Out(t, s, v, "AllocationFailed")}
  ELSE LET k == DigitVal(cmd.strParams[1][2])
       IN {Out(t, s, [v EXCEPT !.data[k] = FormatG(Num(strtod(v.data[k]) + Scale, 1))], "ok")}

\* setVars ([set]): backup of the live selection.
setVars(cmd, t, s, v, b) ==
  {Out(t, s, [v EXCEPT !.sel = Rect(s)], "ok")}

\* ------------------------------------------------------------ the program

VARIABLES
  pc,        \* position in main(): "loadCommands", "openRead", "loadTable",
             \* "process", "fetch", "call", "openWrite", "save", "exit"
  status,    \* "running", "exited" (return from main) or "killed" (signal)
  exitCode,  \* the value main() returned, once status = "exited"
  errKind,   \* the error that ended the run, "none" otherwise
  file,      \* the file on disk: opened for writing? rewritten? rows written
  table,     \* the table: rows of cells
  sel,       \* the live selection and its cursor
  vars,      \* the temporary variables: saved selection, _0.._9, accumulator
  cmd,       \* the command being applied (processCommands' cmd)
  cmdNo,     \* number of commands taken from the sequence so far
  i, j,      \* the loop variables of lines 1389-1390
  log,       \* history: cursor seen by each handler call of the current command
  lastSet,   \* history: selection saved by the last setVars call, NothingSaved if none
  text,      \* runs of one function alone: the bytes the function is given
  result     \* runs of one function alone: what the function returned

vars_all == <<pc, status, exitCode, errKind, file, table, sel, vars, cmd, cmdNo, i, j,
              log, lastSet, text, result>>

\* One-character cells and the texts used by the scripts.
S1(c) == <<c>>

\* Contents of the cells of a decoded file.
CellValues == {EmptyCell, S1("1"), S1("a")}

\* What loadTableFromFile can return: at least one row, at least one cell per
\* row, all rows aligned.
DecodedShapes ==
  {rc \in (1..MaxRows) \X (1..MaxCols) : rc[1] * rc[2] <= MaxCells}

DecodedTables ==
  UNION {[1..rc[1] -> [1..rc[2] -> CellValues]] : rc \in DecodedShapes}

\* The names of processCommands' table and the function each one maps to.
Names ==
  <<"select", "min", "max", "find", "irow", "arow", "drow", "icol", "acol", "dcol", "set",
    "clear", "swap", "sum", "avg", "count", "len", "def", "use", "inc", "set-v">>

Functions ==
  <<"standardSelect", "minMaxSelect", "minMaxSelect", "findSelect", "irow", "arow", "drow",
    "icol", "acol", "dcol", "setEdit", "clearEdit", "swapEdit", "sumAvgEdit", "sumAvgEdit",
    "countEdit", "lenEdit", "defVars", "useVars", "incVars", "setVars">>

\* The lookup loop of lines 1365-1371: index of the name, 0 when not found.
Found(name) ==
  IF \E k \in 1..Len(Names) : Names[k] = name
  THEN CHOOSE k \in 1..Len(Names) : Names[k] = name /\ \A m \in 1..(k - 1) : Names[m] # name
  ELSE 0

NoCmd == Cmd(CLASSIC_COMMAND, "", <<>>, <<>>, <<>>, <<>>)

\* The commands scripts are made of (as loadCommandsFromString delivers them).
SelectCell(r, c) == Cmd(SELECTION_COMMAND, "select", r, c, <<>>, <<>>)
SelectWindow(r1, c1, r2, c2) == Cmd(SELECTION_COMMAND, "select", r1, c1, r2, c2)
Named(type, name, p1, p2) == Cmd(type, name, p1, p2, <<>>, <<>>)

Cells == {<<1, 1>>, <<1, 2>>, <<2, 1>>, <<2, 2>>, <<3, 3>>, <<1, 3>>}
Windows == {<<1, 1, 2, 2>>, <<1, 1, 1, 2>>, <<2, 1, 3, 2>>, <<2, 1, 1, 1>>, <<1, 2, 2, 1>>}

SelectionCommands ==
  {SelectCell(IntToStr(c[1]), IntToStr(c[2])) : c \in Cells}
  \cup {SelectCell(S1("_"), S1("_")), SelectCell(S1("_"), S1("1")), SelectCell(S1("2"), S1("_"))}
  \cup {SelectCell(S1("_"), <<>>), SelectCell(S1("0"), S1("1"))}
  \cup {SelectWindow(IntToStr(w[1]), IntToStr(w[2]), IntToStr(w[3]), IntToStr(w[4]))
          : w \in Windows}
  \cup {SelectWindow(S1("1"), S1("1"), S1("_"), S1("_"))}
  \cup {Named(SELECTION_COMMAND, "min", <<>>, <<>>),
        Named(SELECTION_COMMAND, "max", <<>>, <<>>),
        Named(SELECTION_COMMAND, "find", S1("a"), <<>>),
        Named(SELECTION_COMMAND, "find", <<>>, <<>>),
        Named(SELECTION_COMMAND, "set-v", <<>>, <<>>)}

MutationCommands ==
  {Named(CLASSIC_COMMAND, n, <<>>, <<>>)
     : n \in {"irow", "arow", "drow", "icol", "acol", "dcol", "clear", "frob"}}
  \cup {Named(CLASSIC_COMMAND, "set", S1("x"), <<>>)}
  \cup {Named(CLASSIC_COMMAND, n, S1("1"), S1("2")) : n \in {"swap", "sum", "avg", "count", "len"}}
  \cup {Named(CLASSIC_COMMAND, "sum", S1("3"), S1("1")),
        Named(CLASSIC_COMMAND, "len", S1("0"), S1("1"))}
  \cup {Named(CLASSIC_COMMAND, n, <<"_", "3">>, <<>>) : n \in {"def", "use", "inc"}}
  \cup {Named(CLASSIC_COMMAND, "def", S1("x"), <<>>)}

Commands == SelectionCommands \cup MutationCommands

\* The file before the run; fopen(.., "w") truncates it, saveTableToFile
\* writes the rows.
FileUntouched == [opened |-> FALSE, rewritten |-> FALSE, rows |-> <<>>]

\* Before processCommands, and after the process has ended, there is no
\* table, selection or variables: the three hold these blanks.
NoVars == createVars

\* History value of lastSet before the first [set].
NothingSaved == [rowFrom |-> 0, rowTo |-> 0, colFrom |-> 0, colTo |-> 0]

Init ==
  /\ pc = "loadCommands"
  /\ status = "running"
  /\ exitCode = 0
  /\ errKind = "none"
  /\ file = FileUntouched
  /\ table = <<>>
  /\ sel = createSelection
  /\ vars = NoVars
  /\ cmd = NoCmd
  /\ cmdNo = 0
  /\ i = 0
  /\ j = 0
  /\ log = <<>>
  /\ lastSet = NothingSaved
  /\ text = <<>>
  /\ result = <<>>

\* The process has ended: its memory is gone.
Released ==
  /\ table' = <<>>
  /\ sel' = createSelection
  /\ vars' = NoVars
  /\ i' = 0
  /\ j' = 0

\* return EXIT_SUCCESS in place of EXIT_FAILURE.
FailWithSuccess(kind) ==
  /\ pc' = "exit"
  /\ status' = "exited"
  /\ exitCode' = 0
  /\ errKind' = kind
  /\ UNCHANGED <<text, result>>

\* The error is reported and the dispatcher goes on with the next command.
FailAndGoOn(kind) ==
  /\ pc' = "fetch"
  /\ status' = "running"
  /\ exitCode' = 1
  /\ errKind' = kind
  /\ UNCHANGED <<text, result>>

\* return EXIT_FAILURE after writeErrorMessage
Fail(kind) ==
  /\ pc' = "exit"
  /\ status' = "exited"
  /\ exitCode' = 1
  /\ errKind' = kind
  /\ UNCHANGED <<text, result>>

\* The process is ended by a signal (SIGSEGV, abort in free).
Die ==
  /\ pc' = "exit"
  /\ status' = "killed"
  /\ UNCHANGED <<exitCode, errKind, text, result>>

Continue(next) ==
  /\ pc' = next
  /\ UNCHANGED <<status, exitCode, errKind, text, result>>

\* main, lines 264-301: the argument count is checked, the script is parsed
\* (the commands themselves are drawn one by one in NextCommand) or rejected.
LoadCommands ==
  /\ pc = "loadCommands"
  /\ \/ Continue("openRead")
     \/ Fail("BadArguments")
     \/ Fail("MalformedScript")
     \/ Fail("AllocationFailed")
  /\ UNCHANGED <<file, table, sel, vars, cmd, cmdNo, i, j, log, lastSet>>

\* main, lines 306-313
OpenRead ==
  /\ pc = "openRead"
  /\ \/ Continue("loadTable")
     \/ Fail("FileOpenFailed")
  /\ UNCHANGED <<file, table, sel, vars, cmd, cmdNo, i, j, log, lastSet>>

\* main, lines 315-331: the decoded table, or a decoding error.
LoadTable ==
  /\ pc = "loadTable"
  /\ \/ /\ \E t \in DecodedTables : table' = t
        /\ Continue("process")
     \/ /\ Fail("MalformedQuoting")
        /\ UNCHANGED table
     \/ /\ Fail("AllocationFailed")
        /\ UNCHANGED table
  /\ UNCHANGED <<file, sel, vars, cmd, cmdNo, i, j, log, lastSet>>

\* processCommands, lines 1344-1362: selection and variables are created.
EnterProcessCommands ==
  /\ pc = "process"
  /\ \/ /\ vars' = createVars
        /\ sel' = createSelection
        /\ Continue("fetch")
        /\ UNCHANGED table
     \/ /\ Fail("AllocationFailed")
        /\ UNCHANGED <<sel, vars>>
        /\ table' = <<>>
  /\ UNCHANGED <<file, cmd, cmdNo, i, j, log, lastSet>>

\* Number of rows / columns a command adds at most (guard of NextCommand).
Area(s) == Len(RowMajor(s))

GrowthOK(c) ==
  /\ c.name \in {"irow", "arow"} => Len(table) + Area(sel) <= MaxDim
  /\ c.name \in {"icol", "acol"} => \A r \in 1..Len(table) : Len(table[r]) + Area(sel) <= MaxDim

\* The inner loop stops one column early (j < colTo).
RECURSIVE LoopAtExclusive(_, _, _)
LoopAtExclusive(s, i0, j0) ==
  IF ~(i0 <= s.rowTo) THEN <<>>
  ELSE IF j0 < s.colTo THEN <<i0, j0>>
  ELSE LoopAtExclusive(s, i0 + 1, s.colFrom)

\* The loop head of lines 1389-1390 for the selection s: the next pair (i, j)
\* starting the inner loop of row i0 at column j0, <<>> when the loops end.
RECURSIVE LoopAt(_, _, _)
LoopAt(s, i0, j0) ==
  IF ~(i0 <= s.rowTo) THEN <<>>
  ELSE IF j0 <= s.colTo THEN <<i0, j0>>
  ELSE LoopAt(s, i0 + 1, s.colFrom)

\* while (cmd != NULL): the next command of the sequence is looked up.
NextCommand ==
  /\ pc = "fetch"
  /\ cmdNo < MaxCmds
  /\ \E c \in Commands :
       /\ GrowthOK(c)
       /\ cmd' = c
       /\ cmdNo' = cmdNo + 1
       /\ log' = <<>>
       /\ IF Found(c.name) = 0
          THEN Fail("UnknownCommand") /\ Released
          ELSE /\ UNCHANGED <<table, sel, vars>>
               /\ IF c.type = SELECTION_COMMAND
                  THEN Continue("call") /\ UNCHANGED <<i, j>>
                  ELSE LET at == LoopAt(sel, sel.rowFrom, sel.colFrom)
                       IN IF at = <<>>
                          THEN Continue("fetch") /\ UNCHANGED <<i, j>>
                          ELSE Continue("call") /\ i' = at[1] /\ j' = at[2]
  /\ UNCHANGED <<file, lastSet>>

\* cmd == NULL: the loop ends, processCommands returns without error.
EndOfSequence ==
  /\ pc = "fetch"
  /\ cmdNo >= 1
  /\ Continue("openWrite")
  /\ UNCHANGED <<file, table, sel, vars, cmd, cmdNo, i, j, log, lastSet>>

\* The selection the handler is called with (lines 1391-1393).
WithCursor ==
  IF cmd.type = SELECTION_COMMAND THEN sel ELSE [sel EXCEPT !.curRow = i, !.curCol = j]

\* One call functions[found](cmd, table, sel, vars) with outcome o, and the
\* dispatcher's reaction to it (lines 1382-1403).
Apply(o) ==
  /\ log' = Append(log, <<WithCursor.curRow, WithCursor.curCol>>)
  /\ lastSet' = IF Functions[Found(cmd.name)] = "setVars" /\ o.err = "ok"
                THEN Rect(WithCursor) ELSE lastSet
  /\ IF o.err = "crash" THEN Die /\ Released
     ELSE IF o.err # "ok" THEN Fail(o.err) /\ Released
     ELSE /\ table' = o.table
          /\ sel' = o.sel
          /\ vars' = o.vars
          /\ IF cmd.type = SELECTION_COMMAND
             THEN Continue("fetch") /\ i' = 0 /\ j' = 0
             ELSE LET at == LoopAt(o.sel, i, j + 1)
                  IN IF at = <<>>
                     THEN Continue("fetch") /\ i' = 0 /\ j' = 0
                     ELSE Continue("call") /\ i' = at[1] /\ j' = at[2]
  /\ UNCHANGED <<file, cmd, cmdNo>>

Calling(f) ==
  /\ pc = "call"
  /\ Functions[Found(cmd.name)] = f

StandardSelect ==
  /\ Calling("standardSelect")
  /\ \E b \in Budgets : \E o \in standardSelect(cmd, table, WithCursor, vars, b) : Apply(o)

MinMaxSelect ==
  /\ Calling("minMaxSelect")
  /\ \E b \in Budgets : \E o \in minMaxSelect(cmd, table, WithCursor, vars, b) : Apply(o)

FindSelect ==
  /\ Calling("findSelect")
  /\ \E b \in Budgets : \E o \in findSelect(cmd, table, WithCursor, vars, b) : Apply(o)

Irow ==
  /\ Calling("irow")
  /\ \E b \in Budgets : \E o \in irow(cmd, table, WithCursor, vars, b) : Apply(o)

Arow ==
  /\ Calling("arow")
  /\ \E b \in Budgets : \E o \in arow(cmd, table, WithCursor, vars, b) : Apply(o)

Drow ==
  /\ Calling("drow")
  /\ \E b \in Budgets : \E o \in drow(cmd, table, WithCursor, vars, b) : Apply(o)

Icol ==
  /\ Calling("icol")
  /\ \E b \in Budgets : \E o \in icol(cmd, table, WithCursor, vars, b) : Apply(o)

Acol ==
  /\ Calling("acol")
  /\ \E b \in Budgets : \E o \in acol(cmd, table, WithCursor, vars, b) : Apply(o)

Dcol ==
  /\ Calling("dcol")
  /\ \E b \in Budgets : \E o \in dcol(cmd, table, WithCursor, vars, b) : Apply(o)

SetEdit ==
  /\ Calling("setEdit")
  /\ \E b \in Budgets : \E o \in setEdit(cmd, table, WithCursor, vars, b) : Apply(o)

ClearEdit ==
  /\ Calling("clearEdit")
  /\ \E b \in Budgets : \E o \in clearEdit(cmd, table, WithCursor, vars, b) : Apply(o)

SwapEdit ==
  /\ Calling("swapEdit")
  /\ \E b \in Budgets : \E o \in swapEdit(cmd, table, WithCursor, vars, b) : Apply(o)

SumAvgEdit ==
  /\ Calling("sumAvgEdit")
  /\ \E b \in Budgets : \E o \in sumAvgEdit(cmd, table, WithCursor, vars, b) : Apply(o)

CountEdit ==
  /\ Calling("countEdit")
  /\ \E b \in Budgets : \E o \in countEdit(cmd, table, WithCursor, vars, b) : Apply(o)

LenEdit ==
  /\ Calling("lenEdit")
  /\ \E b \in Budgets : \E o \in lenEdit(cmd, table, WithCursor, vars, b) : Apply(o)

DefVars ==
  /\ Calling("defVars")
  /\ \E b \in Budgets : \E o \in defVars(cmd, table, WithCursor, vars, b) : Apply(o)

UseVars ==
  /\ Calling("useVars")
  /\ \E b \in Budgets : \E o \in useVars(cmd, table, WithCursor, vars, b) : Apply(o)

IncVars ==
  /\ Calling("incVars")
  /\ \E b \in Budgets : \E o \in incVars(cmd, table, WithCursor, vars, b) : Apply(o)

SetVars ==
  /\ Calling("setVars")
  /\ \E b \in Budgets : \E o \in setVars(cmd, table, WithCursor, vars, b) : Apply(o)

\* main, lines 344-351: the file is opened for writing (and truncated).
OpenWrite ==
  /\ pc = "openWrite"
  /\ \/ /\ file' = [file EXCEPT !.opened = TRUE]
        /\ Continue("save")
        /\ UNCHANGED <<table, sel, vars, i, j>>
     \/ /\ Fail("FileOpenFailed")
        /\ Released
        /\ UNCHANGED file
  /\ UNCHANGED <<cmd, cmdNo, log, lastSet>>

\* main, lines 353-360: saveTableToFile (trimRows, then the rows are written)
\* and return EXIT_SUCCESS.
SaveTable ==
  /\ pc = "save"
  /\ \E o \in trimRows(table) :
       /\ Released
       /\ IF o.err = "crash"
          THEN Die /\ UNCHANGED file
          ELSE /\ file' = [file EXCEPT !.rewritten = TRUE, !.rows = o.t]
               /\ pc' = "exit"
               /\ status' = "exited"
               /\ exitCode' = 0
               /\ UNCHANGED <<errKind, text, result>>
  /\ UNCHANGED <<cmd, cmdNo, log, lastSet>>

Next ==
  \/ LoadCommands
  \/ OpenRead
  \/ LoadTable
  \/ EnterProcessCommands
  \/ NextCommand
  \/ EndOfSequence
  \/ StandardSelect
  \/ MinMaxSelect
  \/ FindSelect
  \/ Irow
  \/ Arow
  \/ Drow
  \/ Icol
  \/ Acol
  \/ Dcol
  \/ SetEdit
  \/ ClearEdit
  \/ SwapEdit
  \/ SumAvgEdit
  \/ CountEdit
  \/ LenEdit
  \/ DefVars
  \/ UseVars
  \/ IncVars
  \/ SetVars
  \/ OpenWrite
  \/ SaveTable

Spec == Init /\ [][Next]_vars_all

\* ------------------------------------------------------------- properties

\* The dispatcher stands between two commands (the head of the while loop).
AtStepBoundary == status = "running" /\ pc = "fetch" /\ cmdNo >= 1

\* C1: rectangularity: starting from any decoded table, after every
\* dispatcher step of any script every row of the table has the same number
\* of cells.
C1_Rectangularity == AtStepBoundary => Rectangular(table)

\* The selection s lies inside the table t.
Contained(s, t) ==
  /\ 1 <= s.rowFrom /\ s.rowFrom <= s.rowTo /\ s.rowTo <= Len(t)
  /\ 1 <= s.colFrom /\ s.colFrom <= s.colTo
  /\ \A r \in 1..Len(t) : s.colTo <= Len(t[r])

\* C2: selection containment: after every dispatcher step (drow, dcol and
\* the restoring [_] included) the live selection satisfies
\* 1 <= rowFrom <= rowTo <= rows and 1 <= colFrom <= colTo <= columns.
C2_SelectionContainment == AtStepBoundary => Contained(sel, table)

\* C3: a run that detected an error ends with exit code 1 and never opened
\* the file for writing; the file is rewritten exactly by the runs that
\* return 0, and those detected no error in any command.
C3_ExitCodeAndFile ==
  /\ exitCode \in {0, 1}
  /\ (status = "exited" /\ errKind # "none") => exitCode = 1 /\ file = FileUntouched
  /\ errKind # "none" => status = "exited"
  /\ file.opened => errKind = "none" /\ cmdNo >= 1
  /\ file.rewritten <=> (status = "exited" /\ exitCode = 0)
  /\ (status = "exited" /\ exitCode = 0) => errKind = "none" /\ file.opened

\* A command failed during dispatch, after an earlier command went through.
C3_Witness ==
  /\ status = "exited" /\ exitCode = 1 /\ errKind = "BadArgumentCell"
  /\ cmdNo = 2 /\ cmd.name = "swap" /\ ~file.opened

C5_InOrderUntilFailure ==
  [][/\ status = "running" /\ errKind = "none"
     /\ cmdNo' \in {cmdNo, cmdNo + 1}
     /\ cmdNo' = cmdNo + 1 => pc = "fetch" /\ log' = <<>>
     /\ cmdNo' = cmdNo => cmd' = cmd
     /\ log' # log /\ cmdNo' = cmdNo => pc = "call" /\ Len(log') = Len(log) + 1]_vars_all

\* The second command is not in the catalog: the run ended there.
C5_Witness ==
  /\ status = "exited" /\ errKind = "UnknownCommand" /\ cmdNo = 2 /\ cmdNo < MaxCmds
  /\ log = <<>>

\* A select whose parameters are all numbers: [R,C] or [R1,C1,R2,C2].
NumericSelect(c) ==
  /\ c.name = "select"
  /\ c.intParams[1] >= 1 /\ c.intParams[2] >= 1
  /\ \/ c.intParams[3] = BAD_ROW_COL_NUMBER /\ c.intParams[4] = BAD_ROW_COL_NUMBER
     \/ c.intParams[3] >= c.intParams[1] /\ c.intParams[4] >= c.intParams[2]

Max(a, b) == IF a >= b THEN a ELSE b

\* new is old grown to hold the selection s: exactly as many rows and columns
\* as needed, the old cells kept, the added cells empty.
GrownTo(old, new, s) ==
  /\ Len(new) = Max(Len(old), s.rowTo)
  /\ \A r \in 1..Len(new) :
       /\ Len(new[r]) = Max(Width(old), s.colTo)
       /\ \A c \in 1..Len(new[r]) :
            new[r][c] = IF r <= Len(old) /\ c <= Width(old) THEN old[r][c] ELSE EmptyCell

\* C6: a select [R,C] or [R1,C1,R2,C2] that the dispatcher reports as done
\* has grown the table to exactly max(old rows, rowTo) rows and
\* max(old columns, colTo) columns, never shrinking it, with every old cell
\* unchanged and every added cell empty.
C6_SelectGrows ==
  [][(/\ pc = "call" /\ NumericSelect(cmd)
      /\ Len(table) >= 1 /\ Rectangular(table)
      /\ status' = "running") => GrownTo(table, table', sel')]_vars_all

\* A select with four positive numbers.
IsWindow(c) == c.name = "select" /\ \A k \in 1..4 : c.intParams[k] >= 1

\* The rectangle (R1,R2,C1,C2) a window select asks for.
WindowOf(c) ==
  [rowFrom |-> c.intParams[1], rowTo |-> c.intParams[3],
   colFrom |-> c.intParams[2], colTo |-> c.intParams[4]]

\* C7: a window select with R1 > R2 or C1 > C2 returns BadSelection and
\* leaves selection and table as they were; with R1 <= R2 and C1 <= C2 it
\* sets the live selection to exactly (R1,R2,C1,C2).
C7_WindowSelect ==
  /\ (pc = "call" /\ IsWindow(cmd)) =>
       LET want == WindowOf(cmd)
           w == windowSelect(cmd, table, sel)
       IN IF want.rowFrom > want.rowTo \/ want.colFrom > want.colTo
          THEN /\ w.err = "BadSelection" /\ w.sel = sel
               /\ \A b \in Budgets : \A o \in standardSelect(cmd, table, sel, vars, b) :
                    o.err = "BadSelection" /\ o.sel = sel /\ o.table = table
          ELSE /\ w.err = "ok" /\ Rect(w.sel) = want
               /\ \A b \in Budgets : \A o \in standardSelect(cmd, table, sel, vars, b) :
                    o.err # "crash" => o.err = "ok" /\ Rect(o.sel) = want
  /\ (AtStepBoundary /\ IsWindow(cmd)) => Rect(sel) = WindowOf(cmd)

\* A window select with R1 > R2 ended the run with BadSelection.
C7_Witness ==
  /\ status = "exited" /\ errKind = "BadSelection" /\ exitCode = 1
  /\ IsWindow(cmd) /\ cmd.intParams[1] > cmd.intParams[3]

\* The command [_].
Restore == SelectCell(S1("_"), <<>>)

\* C8: [_] executed when no [set] has been executed before it returns the
\* NoSavedSelection error.
C8_RestoreWithoutSet ==
  (pc = "call" /\ cmd = Restore /\ lastSet = NothingSaved) =>
    \A b \in Budgets : \A o \in standardSelect(cmd, table, sel, vars, b) :
      o.err = "NoSavedSelection"

\* C9: [set] changes neither the live selection nor the table and saves the
\* selection; a later [_], with no [set] in between, makes the rectangle of
\* the live selection equal to the selection [set] was executed with.
C9_SaveRestore ==
  /\ (pc = "call" /\ cmd.name = "set-v") =>
       \A b \in Budgets : \A o \in setVars(cmd, table, sel, vars, b) :
         o.err = "ok" /\ o.table = table /\ o.sel = sel /\ o.vars.sel = Rect(sel)
  /\ (AtStepBoundary /\ cmd.name = "set-v") => lastSet = Rect(sel)
  /\ (pc = "call" /\ cmd = Restore /\ lastSet # NothingSaved) =>
       \A b \in Budgets : \A o \in standardSelect(cmd, table, sel, vars, b) :
         o.err = "ok" /\ Rect(o.sel) = lastSet /\ o.table = table
  /\ (AtStepBoundary /\ cmd = Restore /\ lastSet # NothingSaved) => Rect(sel) = lastSet

\* [set] saved the initial selection, [3,3] moved the selection and grew the
\* table, [_] brought the saved selection back.
C9_Witness ==
  /\ AtStepBoundary /\ cmdNo = 3 /\ cmd = Restore
  /\ lastSet = Rect(createSelection) /\ Rect(sel) = lastSet
  /\ Len(table) = 3 /\ Len(table[1]) = 3

\* A finite decimal number: an optional sign, digits, at most one point.
IsDecimalNumber(c) ==
  LET body == IF c # <<>> /\ c[1] = "-" THEN Tail(c) ELSE c
  IN /\ \E k \in 1..Len(body) : body[k] \in Digits
     /\ \A k \in 1..Len(body) : body[k] \in Digits \cup {"."}
     /\ Cardinality({k \in 1..Len(body) : body[k] = "."}) <= 1

\* C10: [min] ([max]) reduces the selection to the first cell, in row-major
\* order, holding the smallest (largest) value among the numeric cells of the
\* selection; a selection with no numeric cell (all cells empty, say) gives
\* BadSelection and leaves the selection unchanged.
C10_MinMax ==
  (pc = "call" /\ cmd.name \in {"min", "max"} /\ Contained(sel, table)) =>
    LET cs == RowMajor(sel)
        cell(k) == table[cs[k][1]][cs[k][2]]
        numeric == {k \in 1..Len(cs) : IsDecimalNumber(cell(k))}
        best == {k \in numeric : \A m \in numeric :
                   IF cmd.name = "min" THEN strtod(cell(k)) <= strtod(cell(m))
                                       ELSE strtod(cell(k)) >= strtod(cell(m))}
    IN \A b \in Budgets : \A o \in minMaxSelect(cmd, table, sel, vars, b) :
         IF numeric = {}
         THEN o.err = "BadSelection" /\ o.sel = sel
         ELSE LET k == CHOOSE k \in best : \A m \in best : k <= m
              IN /\ o.err = "ok" /\ o.table = table
                 /\ Rect(o.sel) = [rowFrom |-> cs[k][1], rowTo |-> cs[k][1],
                                   colFrom |-> cs[k][2], colTo |-> cs[k][2]]

\* ------------------------------------------------ runs of one function alone

\* Longest text handed to isValidNumber.
MaxNumLen == 5

\* All texts of at most n bytes over the bytes of chars.
Texts(chars, n) == UNION {[1..k -> chars] : k \in 0..n}

\* The variables of main() in a run of one function alone: main() is not
\* running, they keep their initial values.
MainIdle ==
  /\ status = "running" /\ exitCode = 0 /\ errKind = "none"
  /\ file = FileUntouched /\ sel = createSelection /\ vars = NoVars
  /\ cmd = NoCmd /\ cmdNo = 0 /\ i = 0 /\ j = 0 /\ log = <<>>
  /\ lastSet = NothingSaved

\* The bytes the texts given to isValidNumber are made of.
NumberChars == {"1", "-", ".", "x"}

InitNumber ==
  /\ pc = "validate"
  /\ text \in Texts(NumberChars, MaxNumLen)
  /\ result = <<>>
  /\ table = <<>>
  /\ MainIdle

\* One call isValidNumber(text).
Validate ==
  /\ pc = "validate"
  /\ result' = isValidNumber(text)
  /\ pc' = "validated"
  /\ UNCHANGED <<status, exitCode, errKind, file, table, sel, vars, cmd, cmdNo, i, j,
                 log, lastSet, text>>

NextNumber == Validate

SpecNumber == InitNumber /\ [][NextNumber]_vars_all

\* The syntax of a number: not empty, '-' only as the first byte, every other
\* byte a digit or '.', at most one '.'.
MatchesNumberSyntax(c) ==
  /\ c # <<>>
  /\ \A k \in 1..Len(c) : c[k] \in Digits \cup {"."} \/ (k = 1 /\ c[k] = "-")
  /\ Cardinality({k \in 1..Len(c) : c[k] = "."}) <= 1

\* C11: the numeric-validity predicate accepts a text exactly when it is not
\* empty, has '-' only as its first byte and otherwise consists of digits
\* with at most one '.'; the empty text, "1x" and "1.2.3" are rejected.
C11_NumericValidity ==
  pc = "validated" => (result <=> MatchesNumberSyntax(text))

\* needle occurs in hay as a run of consecutive bytes.
IsSubstring(needle, hay) ==
  \E k \in 0..(Len(hay) - Len(needle)) : SubSeq(hay, k + 1, k + Len(needle)) = needle

\* The selection made of the single cell rc.
OneCell(rc) == [rowFrom |-> rc[1], rowTo |-> rc[1], colFrom |-> rc[2], colTo |-> rc[2]]

\* C12: [find STR] with a non-empty STR reduces the selection to the first
\* cell, in row-major order, whose content contains STR; with no such cell
\* the selection is unchanged and there is no error; with an empty STR the
\* result is BadSelection; the table is unchanged in every case.
C12_Find ==
  (pc = "call" /\ cmd.name = "find" /\ Contained(sel, table)) =>
    LET str == cmd.strParams[1]
        cs == RowMajor(sel)
        hits == {k \in 1..Len(cs) : IsSubstring(str, table[cs[k][1]][cs[k][2]])}
    IN \A b \in Budgets : \A o \in findSelect(cmd, table, sel, vars, b) :
         /\ o.table = table
         /\ IF str = <<>> THEN o.err = "BadSelection" /\ o.sel = sel
            ELSE /\ o.err = "ok"
                 /\ IF hits = {} THEN o.sel = sel
                    ELSE Rect(o.sel) = OneCell(cs[CHOOSE k \in hits : \A m \in hits : k <= m])

\* [find a] over the row ("1", "a") selects the second cell.
C12_Witness ==
  /\ pc = "call" /\ cmd.name = "find" /\ cmd.strParams[1] = S1("a")
  /\ table = <<<<S1("1"), S1("a")>>>>
  /\ Rect(sel) = [rowFrom |-> 1, rowTo |-> 1, colFrom |-> 1, colTo |-> 2]
  /\ \E o \in findSelect(cmd, table, sel, vars, Unlimited) :
       o.err = "ok" /\ Rect(o.sel) = OneCell(<<1, 2>>)

\* The cell argument [R,C] of a mutation command names a cell of the table.
TargetInTable == InTable(table, cmd.intParams[1], cmd.intParams[2])

\* The handler is being called for the last cell of the selection.
AtLastCell == i = sel.rowTo /\ j = sel.colTo

\* The value (in units of 1/Scale) a cell contributes to a sum: its number
\* when it is numeric, 0 otherwise.
Contribution(c) == IF IsDecimalNumber(c) THEN strtod(c) ELSE 0

\* The sum of the contributions of the cells cs[k..] of the table t.
RECURSIVE SumFrom(_, _, _)
SumFrom(t, cs, k) ==
  IF k > Len(cs) THEN 0 ELSE Contribution(t[cs[k][1]][cs[k][2]]) + SumFrom(t, cs, k + 1)

\* C13: sum [R,C] with (R,C) in range, iterated over the selection, leaves the
\* table alone until the last cell and there writes into (R,C) the text of
\* the sum of the numeric cells of the selection, a non-numeric cell
\* counting 0 wherever it stands, the last cell included.
C13_Sum ==
  (/\ pc = "call" /\ cmd.name = "sum"
   /\ Rectangular(table) /\ Contained(sel, table) /\ TargetInTable) =>
    \A b \in Budgets : \A o \in sumAvgEdit(cmd, table, WithCursor, vars, b) :
      IF AtLastCell
      THEN o.err = "ok" =>
             o.table = [table EXCEPT ![cmd.intParams[1]][cmd.intParams[2]] =
                                       FormatG(Num(SumFrom(table, RowMajor(sel), 1), 1))]
      ELSE o.err = "ok" /\ o.table = table

\* The handler is being called for the first cell of the selection.
AtFirstCell == i = sel.rowFrom /\ j = sel.colFrom

\* The cell argument [R,C] lies outside the selection.
TargetOutsideSelection ==
  ~(/\ cmd.intParams[1] >= sel.rowFrom /\ cmd.intParams[1] <= sel.rowTo
    /\ cmd.intParams[2] >= sel.colFrom /\ cmd.intParams[2] <= sel.colTo)

\* How many of the first n cells of cs are non-empty in the table t.
NonEmptyUpTo(t, cs, n) == Cardinality({k \in 1..n : t[cs[k][1]][cs[k][2]] # <<>>})

\* The place of the cursor in the row-major order of the selection.
CursorIndex == CHOOSE k \in 1..Len(RowMajor(sel)) : RowMajor(sel)[k] = <<i, j>>

\* C14: each call of count [R,C] with (R,C) in range writes "0" into (R,C)
\* first when it is the call for the first cell, then adds 1 to (R,C) when the
\* current cell is non-empty at that moment, and changes no other cell; with
\* (R,C) outside the selection (R,C) holds after the call for the k-th cell
\* the number of non-empty cells among the first k, so the number of
\* non-empty cells of the selection after the last.
C14_Count ==
  (/\ pc = "call" /\ cmd.name = "count"
   /\ Rectangular(table) /\ Contained(sel, table) /\ TargetInTable) =>
    LET R == cmd.intParams[1]
        C == cmd.intParams[2]
        t1 == IF AtFirstCell THEN [table EXCEPT ![R][C] = <<"0">>] ELSE table
        t2 == IF t1[i][j] # <<>>
              THEN [t1 EXCEPT ![R][C] = IntToStr(strtol(t1[R][C]) + 1)] ELSE t1
    IN \A b \in Budgets : \A o \in countEdit(cmd, table, WithCursor, vars, b) :
         o.err = "ok" =>
           /\ o.table = t2
           /\ \A r \in 1..Len(table) : \A c \in 1..Len(table[r]) :
                <<r, c>> # <<R, C>> => o.table[r][c] = table[r][c]
           /\ TargetOutsideSelection =>
                o.table[R][C] = IntToStr(NonEmptyUpTo(table, RowMajor(sel), CursorIndex))

\* The last call of a count over a selection of an empty and a non-empty cell
\* with the target outside it.
C14_Witness ==
  /\ pc = "call" /\ cmd.name = "count" /\ AtLastCell /\ ~AtFirstCell
  /\ Rectangular(table) /\ Contained(sel, table) /\ TargetInTable /\ TargetOutsideSelection
  /\ NonEmptyUpTo(table, RowMajor(sel), Len(RowMajor(sel))) \in 1..(Len(RowMajor(sel)) - 1)
  /\ \E o \in countEdit(cmd, table, WithCursor, vars, Unlimited) :
       /\ o.err = "ok"
       /\ o.table[cmd.intParams[1]][cmd.intParams[2]] =
            IntToStr(NonEmptyUpTo(table, RowMajor(sel), Len(RowMajor(sel))))

\* The commands taking a cell argument [R,C], and what the handler of the
\* current one returns under the allocation budget b.
CellArgumentCommands == {"swap", "sum", "avg", "count", "len"}

CellArgumentOutcomes(b) ==
  CASE cmd.name = "swap" -> swapEdit(cmd, table, WithCursor, vars, b)
    [] cmd.name \in {"sum", "avg"} -> sumAvgEdit(cmd, table, WithCursor, vars, b)
    [] cmd.name = "count" -> countEdit(cmd, table, WithCursor, vars, b)
    [] cmd.name = "len" -> lenEdit(cmd, table, WithCursor, vars, b)

\* C15: swap, sum, avg, count and len called with a cell argument [R,C] that
\* is no positive pair or names no cell of the table return BadArgumentCell
\* and leave the table as it was.
C15_BadArgumentCell ==
  (/\ pc = "call" /\ cmd.name \in CellArgumentCommands
   /\ Rectangular(table) /\ Contained(sel, table) /\ ~TargetInTable) =>
    \A b \in Budgets : \A o \in CellArgumentOutcomes(b) :
      o.err = "BadArgumentCell" /\ o.table = table

\* ------------------------------------------------------------ the file format

\* Flags of the loaders (lines 24-36).
EMPTY_FLAG == -1
LAST_CELL == 0
LAST_ROW == 1
INVALID_INPUT_FORMAT == 2

\* The bytes that must be escaped (line 52).
SPECIAL_CHARS == <<"\"", "\\">>

\* What getc() returns at the end of the file, and the '\0' prevC starts as.
EOF == "EOF"
NUL == "NUL"
LF == "\n"

\* strc(str, c): strchr(str, c) != NULL.
strc(str, c) == \E k \in 1..Len(str) : str[k] = c

\* getc() on the file read up to (not including) position p.
GetC(bytes, p) == IF p <= Len(bytes) THEN bytes[p] ELSE EOF

\* The capacity of a cell's buffer holding size bytes: CELL_START_CAPACITY,
\* doubled by every realloc of addCharToCell.
RECURSIVE CellCapacity(_)
CellCapacity(size) == IF size <= 1 THEN 1 ELSE 2 * CellCapacity((size + 1) \div 2)

\* addCharToCell(cell, c, size + 1) as loadCellFromFile calls it: its result
\* is dropped (line 470).  When the buffer is full it is reallocated (one
\* malloc unit); on failure cell->data is overwritten by NULL, the byte is
\* not stored and the cell has lost its buffer.
addCharToCell(cell, c, b, lost) ==
  IF CellCapacity(Len(cell)) < Len(cell) + 1
  THEN IF CanAlloc(b, 1)
       THEN [cell |-> Append(cell, c), b |-> Spend(b, 1), lost |-> lost]
       ELSE [cell |-> cell, b |-> b, lost |-> TRUE]
  ELSE [cell |-> Append(cell, c), b |-> b, lost |-> lost]

\* The while loop of loadCellFromFile (lines 451-474), about to read the byte
\* at position p.  It ends with err = "ok" on the byte c at position p that
\* stopped it (EOF, LF, or a delimiter outside quotes), or with
\* "MalformedQuoting" (flag INVALID_INPUT_FORMAT, line 463).
RECURSIVE CellLoop(_, _, _, _, _, _, _, _)
CellLoop(bytes, p, delimiters, prevC, ignoreDelimiters, cell, b, lost) ==
  LET c == GetC(bytes, p)
      nextC == GetC(bytes, p + 1)
      a == addCharToCell(cell, c, b, lost)
  IN IF c = EOF \/ c = LF \/ (strc(delimiters, c) /\ ~ignoreDelimiters)
     THEN [err |-> "ok", cell |-> cell, p |-> p, c |-> c,
           ignoreDelimiters |-> ignoreDelimiters, b |-> b, lost |-> lost]
     ELSE IF c = "\"" /\ prevC # "\\"
     THEN IF prevC = NUL
          THEN CellLoop(bytes, p + 1, delimiters, c, TRUE, cell, b, lost)
          ELSE IF (nextC = LF \/ strc(delimiters, nextC)) /\ ignoreDelimiters
          THEN CellLoop(bytes, p + 1, delimiters, c, FALSE, cell, b, lost)
          ELSE [err |-> "MalformedQuoting", cell |-> cell, p |-> p, c |-> c,
                ignoreDelimiters |-> ignoreDelimiters, b |-> b, lost |-> lost]
     ELSE IF ~strc(SPECIAL_CHARS, c) \/ prevC = "\\"
     THEN CellLoop(bytes, p + 1, delimiters, c, ignoreDelimiters, a.cell, a.b, a.lost)
     ELSE CellLoop(bytes, p + 1, delimiters, c, ignoreDelimiters, cell, b, lost)

\* The end of loadCellFromFile (lines 476-493) after the loop result l: an
\* open quoting is "MalformedQuoting", LF sets LAST_CELL, and an EOF behind
\* the byte that ended the cell sets LAST_ROW.  p becomes the position of the
\* next byte to read.
CellLoaded(bytes, flag, l) ==
  LET p1 == IF l.c = EOF THEN l.p ELSE l.p + 1
      flag1 == IF l.c = LF THEN LAST_CELL ELSE flag
      flag2 == IF GetC(bytes, p1) = EOF THEN LAST_ROW ELSE flag1
  IN IF l.err # "ok" \/ l.ignoreDelimiters
     THEN [err |-> "MalformedQuoting", cell |-> l.cell, p |-> l.p,
           flag |-> INVALID_INPUT_FORMAT, b |-> l.b, lost |-> l.lost]
     ELSE [err |-> "ok", cell |-> l.cell, p |-> p1, flag |-> flag2, b |-> l.b, lost |-> l.lost]

\* loadCellFromFile (lines 440-494): createCell is one malloc unit.
loadCellFromFile(bytes, p, delimiters, flag, b, lost) ==
  IF ~CanAlloc(b, 1)
  THEN [err |-> "AllocationFailed", cell |-> EmptyCell, p |-> p, flag |-> flag,
        b |-> b, lost |-> lost]
  ELSE CellLoaded(bytes, flag,
                  CellLoop(bytes, p, delimiters, NUL, FALSE, EmptyCell, Spend(b, 1), lost))

\* The while loop of loadRowFromFile (lines 413-424): RowLoop is its test,
\* RowNext its body on the loaded cell c (NULL returns NULL, line 416).
RECURSIVE RowLoop(_, _, _, _, _, _, _)
RECURSIVE RowNext(_, _, _, _)
RowNext(bytes, delimiters, row, c) ==
  IF c.err # "ok"
  THEN [err |-> c.err, row |-> row, p |-> c.p, flag |-> c.flag, b |-> c.b, lost |-> c.lost]
  ELSE RowLoop(bytes, c.p, delimiters, c.flag,
               addCellToRow(row, c.cell, Len(row) + 1).row, c.b, c.lost)

RowLoop(bytes, p, delimiters, flag, row, b, lost) ==
  IF flag # LAST_ROW /\ flag # LAST_CELL
  THEN RowNext(bytes, delimiters, row, loadCellFromFile(bytes, p, delimiters, flag, b, lost))
  ELSE [err |-> "ok", row |-> row, p |-> p, flag |-> flag, b |-> b, lost |-> lost]

\* Lines 426-430: LAST_CELL is reset to -1 for the next row.
RowLoaded(r) == IF r.err = "ok" /\ r.flag = LAST_CELL THEN [r EXCEPT !.flag = -1] ELSE r

\* loadRowFromFile (lines 404-431): createRow is one malloc unit.
loadRowFromFile(bytes, p, delimiters, flag, b, lost) ==
  IF ~CanAlloc(b, 1)
  THEN [err |-> "AllocationFailed", row |-> EmptyRow, p |-> p, flag |-> flag,
        b |-> b, lost |-> lost]
  ELSE RowLoaded(RowLoop(bytes, p, delimiters, flag, EmptyRow, Spend(b, 1), lost))

\* The while loop of loadTableFromFile (lines 377-389): TableLoop is its
\* test, TableNext its body on the loaded row r.
RECURSIVE TableLoop(_, _, _, _, _, _, _)
RECURSIVE TableNext(_, _, _, _)
TableNext(bytes, delimiters, t, r) ==
  IF r.err # "ok" THEN [err |-> r.err, t |-> t, b |-> r.b, lost |-> r.lost]
  ELSE TableLoop(bytes, r.p, delimiters, r.flag,
                 addRowToTable(t, r.row, Len(t) + 1).t, r.b, r.lost)

TableLoop(bytes, p, delimiters, flag, t, b, lost) ==
  IF flag # LAST_ROW
  THEN TableNext(bytes, delimiters, t, loadRowFromFile(bytes, p, delimiters, flag, b, lost))
  ELSE [err |-> "ok", t |-> t, b |-> b, lost |-> lost]

\* Lines 391-395: the rows are aligned; a failure returns NULL.
TableLoaded(l) ==
  LET a == alignRowSizes(l.t, l.b)
  IN IF l.err # "ok" THEN [err |-> l.err, t |-> l.t, lost |-> l.lost]
     ELSE [err |-> a.err, t |-> a.t, lost |-> l.lost]

\* loadTableFromFile (lines 369-396) as main calls it (flag = EMPTY_FLAG):
\* createTable is one malloc unit, the rows are loaded, then aligned.  main
\* reports INVALID_INPUT_FORMAT as malformed quoting and every other NULL as
\* a failed allocation (lines 318-323).  lost tells that a cell of the table
\* has no buffer.
loadTableFromFile(bytes, delimiters, b) ==
  IF ~CanAlloc(b, 1) THEN [err |-> "AllocationFailed", t |-> <<>>, lost |-> FALSE]
  ELSE TableLoaded(TableLoop(bytes, 1, delimiters, EMPTY_FLAG, <<>>, Spend(b, 1), FALSE))

\* The bytes of one cell between its borders (lines 666-674): a backslash
\* before every byte of SPECIAL_CHARS.  k is the 1-based index of the byte.
RECURSIVE PrintData(_, _)
PrintData(cell, k) ==
  IF k > Len(cell) THEN <<>>
  ELSE (IF strc(SPECIAL_CHARS, cell[k]) THEN <<"\\">> ELSE <<>>)
         \o <<cell[k]>> \o PrintData(cell, k + 1)

\* Borders that look at the main delimiter only.
BordersMainOnly(cell, delimiters) == strc(cell, delimiters[1])

\* Lines 654-662: borders are required when the cell holds a delimiter byte.
Borders(cell, delimiters) == \E k \in 1..Len(delimiters) : strc(cell, delimiters[k])

PrintCell(cell, delimiters) ==
  LET border == IF Borders(cell, delimiters) THEN <<"\"">> ELSE <<>>
  IN border \o PrintData(cell, 1) \o border

\* The inner loop of saveTableToFile from the cell at index col (1-based) of
\* a row on: the main delimiter follows every cell but the last.
RECURSIVE PrintRow(_, _, _)
PrintRow(row, col, delimiters) ==
  IF col > Len(row) THEN <<>>
  ELSE PrintCell(row[col], delimiters)
         \o (IF col < Len(row) THEN <<delimiters[1]>> ELSE <<>>)
         \o PrintRow(row, col + 1, delimiters)

\* The outer loop from the row at index r on: a line break after every row.
RECURSIVE PrintRows(_, _, _)
PrintRows(t, r, delimiters) ==
  IF r > Len(t) THEN <<>>
  ELSE PrintRow(t[r], 1, delimiters) \o <<LF>> \o PrintRows(t, r + 1, delimiters)

\* saveTableToFile (lines 640-690): trimRows, then the rows are printed.  The
\* outcomes are those of trimRows, with the bytes written.
saveTableToFile(t, delimiters) ==
  {[t |-> o.t, err |-> o.err,
    bytes |-> IF o.err = "ok" THEN PrintRows(o.t, 1, delimiters) ELSE <<>>]
   : o \in trimRows(t)}

\* --------------------------------------- runs of the decoder and the encoder

\* Longest input file.
MaxText == 5

\* The -d argument of the runs, and the bytes input files are made of.
Delimiters == <<":", " ">>
CodecChars == {"a", ":", " ", "\"", "\\", LF}

InitCodec ==
  /\ pc = "decode" /\ text \in Texts(CodecChars, MaxText)
  /\ result = <<>> /\ table = <<>> /\ MainIdle

\* main, lines 315-331, on the file text: the table is loaded, or the run
\* ends with the error.  A table holding a cell without buffer kills the
\* process at the first strlen / strchr of that cell.
Decode ==
  /\ pc = "decode"
  /\ \E b \in Budgets :
       LET d == loadTableFromFile(text, Delimiters, b)
       IN IF d.err # "ok"
          THEN /\ errKind' = d.err /\ pc' = "done" /\ UNCHANGED table
          ELSE IF d.lost
          THEN /\ errKind' = "crash" /\ pc' = "done" /\ UNCHANGED table
          ELSE /\ table' = d.t /\ pc' = "encode" /\ UNCHANGED errKind
  /\ UNCHANGED <<status, exitCode, file, sel, vars, cmd, cmdNo, i, j, log, lastSet,
                 text, result>>

\* main, lines 344-360, with a script that changes nothing: the table is
\* written back; result is the new content of the file.
Encode ==
  /\ pc = "encode"
  /\ \E o \in saveTableToFile(table, Delimiters) :
       IF o.err # "ok"
       THEN /\ errKind' = o.err /\ pc' = "done" /\ UNCHANGED <<table, result>>
       ELSE /\ table' = o.t /\ result' = o.bytes /\ pc' = "written" /\ UNCHANGED errKind
  /\ UNCHANGED <<status, exitCode, file, sel, vars, cmd, cmdNo, i, j, log, lastSet, text>>

NextCodec == Decode \/ Encode

SpecCodec == InitCodec /\ [][NextCodec]_vars_all

\* ---------------------------------------------- properties of the file format

\* A file whose first cell is quoted: '"', a body of content bytes and
\* delimiters, the closing '"', then the end of the file, a line break, or a
\* delimiter and one more plain cell.
StripLF(s) == IF s # <<>> /\ s[Len(s)] = LF THEN SubSeq(s, 1, Len(s) - 1) ELSE s
PlainText(s) == s # <<>> /\ \A k \in 1..Len(s) : s[k] = "a"
CloseIndex(t) == CHOOSE k \in 2..Len(t) : t[k] = "\"" /\ \A m \in 2..(k - 1) : t[m] # "\""
QuotedBody(t) == SubSeq(t, 2, CloseIndex(t) - 1)
QuotedTail(t) == SubSeq(t, CloseIndex(t) + 1, Len(t))
IsQuotedFile(t) ==
  /\ Len(t) >= 2 /\ t[1] = "\"" /\ \E k \in 2..Len(t) : t[k] = "\""
  /\ \A k \in 1..Len(QuotedBody(t)) : QuotedBody(t)[k] = "a" \/ strc(Delimiters, QuotedBody(t)[k])
  /\ \/ QuotedTail(t) \in {<<>>, <<LF>>}
     \/ strc(Delimiters, QuotedTail(t)[1]) /\ PlainText(StripLF(Tail(QuotedTail(t))))
QuotedFileRow(t) ==
  IF QuotedTail(t) \in {<<>>, <<LF>>} THEN <<QuotedBody(t)>>
  ELSE <<QuotedBody(t), StripLF(Tail(QuotedTail(t)))>>

\* C16: a quoted cell whose closing '"' is followed at once by a delimiter, a
\* line break or the end of the file is decoded without a quoting error, and
\* the delimiters between the quotes are content of the cell.
C16_QuotedCell ==
  (pc # "decode" /\ IsQuotedFile(text)) =>
    /\ errKind # "MalformedQuoting"
    /\ pc = "encode" => table = <<QuotedFileRow(text)>>

\* No cell of the file opens a quoting: every '"' stands behind a byte that
\* is neither a delimiter nor a line break.
NoCellOpensQuoting(t) ==
  \A k \in 1..Len(t) :
    t[k] = "\"" => k > 1 /\ t[k - 1] # LF /\ ~strc(Delimiters, t[k - 1])

\* C17: the decoder reports malformed quoting only when a quoting was opened
\* and is not closed at the cell boundary: a file in which no cell opens a
\* quoting, whatever '"' it holds inside its cells, is decoded without that
\* error.
C17_MalformedOnlyWhenOpen ==
  (pc # "decode" /\ NoCellOpensQuoting(text)) => errKind # "MalformedQuoting"

\* A one-line file of one unquoted cell made of plain bytes and escape pairs
\* (a backslash followed by a backslash or a '"'): nothing to trim, no
\* quoting needed.
RECURSIVE EscapedFrom(_, _)
EscapedFrom(s, k) ==
  \/ k > Len(s)
  \/ s[k] = "a" /\ EscapedFrom(s, k + 1)
  \/ /\ s[k] = "\\" /\ k + 1 <= Len(s) /\ s[k + 1] \in {"\\", "\""}
     /\ EscapedFrom(s, k + 2)
IsEscapedLine(t) ==
  Len(t) >= 2 /\ t[Len(t)] = LF /\ EscapedFrom(SubSeq(t, 1, Len(t) - 1), 1)

\* C18: decoding a file and encoding the table again gives the file back up
\* to trimmed columns and minimal quoting; so a file with nothing to trim
\* and nothing to quote, escape pairs included, is decoded without error and
\* written back byte for byte.
C18_RoundTrip ==
  IsEscapedLine(text) =>
    /\ pc # "decode" => errKind \notin {"MalformedQuoting", "crash"}
    /\ pc = "written" => result = text

\* The encoding the format prescribes, built cell by cell.
RECURSIVE Flatten(_)
Flatten(ss) == IF ss = <<>> THEN <<>> ELSE Head(ss) \o Flatten(Tail(ss))
DelimiterSet == {Delimiters[k] : k \in 1..Len(Delimiters)}
EscapedCell(c) ==
  Flatten([k \in 1..Len(c) |-> IF c[k] \in {"\"", "\\"} THEN <<"\\", c[k]>> ELSE <<c[k]>>])
WrittenCell(c) ==
  IF \E k \in 1..Len(c) : c[k] \in DelimiterSet
  THEN <<"\"">> \o EscapedCell(c) \o <<"\"">> ELSE EscapedCell(c)
WrittenLine(row) ==
  Flatten([k \in 1..Len(row) |->
             IF k = 1 THEN WrittenCell(row[k]) ELSE <<Delimiters[1]>> \o WrittenCell(row[k])])
   \o <<LF>>

\* C19: the encoder writes the rows in order and the cells of a row in order;
\* a cell stands between '"' exactly when it holds a byte of the delimiter
\* set, every '"' and backslash of it is preceded by a backslash, the cells
\* of a row are separated by the first delimiter, and every row ends with a
\* line break: a table of R rows gives R lines.
C19_Encoder ==
  pc = "written" =>
    /\ result = Flatten([r \in 1..Len(table) |-> WrittenLine(table[r])])
    /\ Cardinality({k \in 1..Len(result) : result[k] = LF}) = Len(table)

\* A row of a cell holding the second delimiter and a plain cell, written.
C19_Witness ==
  /\ pc = "written" /\ table = <<<<<<" ">>, <<"a">>>>>>
  /\ result = <<"\"", " ", "\"", ":", "a", LF>>

\* C20: an empty input file decodes to a table of no rows, and is written
\* back as an empty file.
C20_EmptyFile ==
  text = <<>> =>
    /\ pc = "encode" => table = <<>>
    /\ pc = "written" => result = <<>>
    /\ pc = "done" => errKind = "AllocationFailed"

\* ---------------------------------------------------------- the script parser

COMMAND_NAME_SIZE == 6
COMMAND_PARAMS_SIZE == 4

\* string[k] for the 1-based index k: the terminating '\0' right behind the
\* string.
CharAt(string, k) == IF k >= 1 /\ k <= Len(string) THEN string[k] ELSE NUL

\* string[i - 1] at the 1-based index k.  In front of the first byte the read
\* leaves the string: before tells whether that byte happens to be a
\* backslash.
CharBefore(string, k, before) ==
  IF k > 1 THEN string[k - 1] ELSE IF before THEN "\\" ELSE NUL

\* createCmd (lines 1200-1223), without the integer parameters.
NewCmd == [type |-> CLASSIC_COMMAND, name |-> <<>>, strParams |-> <<<<>>, <<>>, <<>>, <<>>>>]

\* (*param)[cmdI] = c; (*param)[cmdI + 1] = '\0' (lines 560-572, 606-618).
StoreChar(str, cmdI, c) == Append(SubSeq(str, 1, cmdI), c)

\* addNewCmdToSeq (lines 1230-1250): the selection command "set" is renamed.
addNewCmdToSeq(cmds, cur) ==
  Append(cmds, IF cur.name = <<"s", "e", "t">> /\ cur.type = SELECTION_COMMAND
               THEN [cur EXCEPT !.name = <<"s", "e", "t", "-", "v">>] ELSE cur)

\* convertTypesInCommandParams (lines 1256-1271) over the whole sequence.
convertTypesInCommandParams(cmds) ==
  [k \in 1..Len(cmds) |->
     [type |-> cmds[k].type, name |-> cmds[k].name, strParams |-> cmds[k].strParams,
      intParams |-> [m \in 1..COMMAND_PARAMS_SIZE |-> IntParam(cmds[k].strParams[m])]]]

\* How a parse ends early: "MalformedScript" (flag INVALID_INPUT_FORMAT),
\* "AllocationFailed" (NULL without the flag), or "undefined" when the parser
\* left an array or the string.
ParseEnd(e) == [err |-> e, cmds |-> <<>>]

\* The while loop of lines 548-575 at the 1-based index k: the items of a
\* bracket.  cmdI is reset by ',' and never incremented, so every byte of an
\* item is stored at index cmdI of its parameter.  Without ']' or ';' the
\* loop runs past the end of the string.
RECURSIVE BracketLoop(_, _, _, _, _, _)
BracketLoop(string, k, cmdI, paramI, cur, b) ==
  LET c == CharAt(string, k)
  IN IF c = "]" \/ c = ";"
     THEN [err |-> IF c = ";" THEN "MalformedScript" ELSE "ok",
           k |-> k, paramI |-> paramI, cur |-> cur, b |-> b]
     ELSE IF c = ","
     THEN BracketLoop(string, k + 1, 0, paramI + 1, cur, b)
     ELSE IF paramI > COMMAND_PARAMS_SIZE \/ k > Len(string)
     THEN [err |-> "undefined", k |-> k, paramI |-> paramI, cur |-> cur, b |-> b]
     ELSE IF ~CanAlloc(b, 1)
     THEN [err |-> "AllocationFailed", k |-> k, paramI |-> paramI, cur |-> cur, b |-> b]
     ELSE BracketLoop(string, k + 1, cmdI, paramI,
                      [cur EXCEPT !.strParams[paramI] = StoreChar(@, cmdI, c)], Spend(b, 1))

\* The for loop of loadCommandsFromString (lines 515-623) at the 1-based
\* index k, ParseBracket its continuation behind the bracket loop (the
\* continue of line 583 and the i++ of the for skip the ']').
RECURSIVE ParseLoop(_, _, _, _, _, _, _, _)
RECURSIVE ParseBracket(_, _, _, _, _)
ParseBracket(string, cmds, b, before, r) ==
  IF r.err # "ok" THEN ParseEnd(r.err)
  ELSE ParseLoop(string, r.k + 1, 0, r.paramI, r.cur, cmds, r.b, before)

ParseLoop(string, k, cmdI, paramI, cur, cmds, b, before) ==
  LET c == CharAt(string, k)
      next == CharAt(string, k + 1)
      prev == CharBefore(string, k, before)
  IN IF k > Len(string)
     THEN [err |-> "ok", cmds |-> convertTypesInCommandParams(addNewCmdToSeq(cmds, cur))]
     ELSE IF c = ";"
     THEN IF CanAlloc(b, 1)
          THEN ParseLoop(string, k + 1, 0, 0, NewCmd, addNewCmdToSeq(cmds, cur),
                         Spend(b, 1), before)
          ELSE ParseEnd("AllocationFailed")
     ELSE IF c = " " /\ prev # "\\"
     THEN ParseLoop(string, k + 1, 0, paramI + 1, cur, cmds, b, before)
     ELSE IF cmdI = 0 /\ c = "[" /\ (next \in Digits \/ next = "_")
     THEN ParseBracket(string, cmds, b, before,
            BracketLoop(string, k + 1, cmdI, IF paramI = 0 THEN 1 ELSE paramI,
                        IF paramI = 0
                        THEN [cur EXCEPT !.type = SELECTION_COMMAND,
                                         !.name = <<"s", "e", "l", "e", "c", "t">>]
                        ELSE cur, b))
     ELSE IF c = "]" /\ next \in {" ", ";", NUL}
     THEN ParseLoop(string, k + 1, cmdI, paramI, cur, cmds, b, before)
     ELSE IF paramI = 0
     THEN IF cmdI = 0 /\ c = "["
          THEN ParseLoop(string, k + 1, cmdI, paramI,
                         [cur EXCEPT !.type = SELECTION_COMMAND], cmds, b, before)
          ELSE IF cmdI >= COMMAND_NAME_SIZE THEN ParseEnd("undefined")
          ELSE ParseLoop(string, k + 1, cmdI + 1, paramI,
                         [cur EXCEPT !.name = StoreChar(@, cmdI, c)], cmds, b, before)
     ELSE IF c = "\\" /\ prev # "\\"
     THEN ParseLoop(string, k + 1, cmdI, paramI, cur, cmds, b, before)
     ELSE IF paramI > COMMAND_PARAMS_SIZE THEN ParseEnd("undefined")
     ELSE IF ~CanAlloc(b, 1) THEN ParseEnd("AllocationFailed")
     ELSE ParseLoop(string, k + 1, cmdI + 1, paramI,
                    [cur EXCEPT !.strParams[paramI] = StoreChar(@, cmdI, c)], cmds,
                    Spend(b, 1), before)

\* loadCommandsFromString (lines 502-631): createCmdSeq and the first
\* createCmd are one malloc unit each.
loadCommandsFromString(string, before, b) ==
  IF ~CanAlloc(b, 2) THEN ParseEnd("AllocationFailed")
  ELSE ParseLoop(string, 1, 0, 0, NewCmd, <<>>, Spend(b, 2), before)

\* ------------------------------------------------------- runs of the parser

\* Longest script made of bracket bytes or of token bytes, and longest
\* script made of all of them.
MaxScript == 6
MaxMixed == 3

BracketChars == {"[", "]", ",", "1", "2", "_"}
TokenChars == {"a", " ", "\\", ";"}
Scripts ==
  Texts(BracketChars, MaxScript) \cup Texts(TokenChars, MaxScript)
    \cup Texts(BracketChars \cup TokenChars, MaxMixed)

InitScript ==
  /\ pc = "parse" /\ text \in Scripts
  /\ result = <<>> /\ table = <<>> /\ MainIdle

\* main, lines 288-301, on the script text: result is the command sequence,
\* or how the parse ended.  A parse that left its arrays or the string has
\* read or written foreign memory: the process dies, or the parse ends on
\* whatever bytes it met.
ParseScript ==
  /\ pc = "parse"
  /\ \E b \in Budgets : \E before \in BOOLEAN :
       LET r == loadCommandsFromString(text, before, b)
       IN IF r.err = "undefined"
          THEN result' \in {ParseEnd("crash"), ParseEnd("MalformedScript"),
                            ParseEnd("unpredictable")}
          ELSE result' = r
  /\ pc' = "parsed"
  /\ UNCHANGED <<status, exitCode, errKind, file, table, sel, vars, cmd, cmdNo, i, j, log,
                 lastSet, text>>

NextScript == ParseScript

SpecScript == InitScript /\ [][NextScript]_vars_all

\* ------------------------------------------------- properties of the parser

\* The items of s between its commas.
RECURSIVE SplitAtCommas(_)
SplitAtCommas(s) ==
  IF \E k \in 1..Len(s) : s[k] = ","
  THEN LET k == CHOOSE m \in 1..Len(s) : s[m] = "," /\ \A n \in 1..(m - 1) : s[n] # ","
       IN <<SubSeq(s, 1, k - 1)>> \o SplitAtCommas(SubSeq(s, k + 1, Len(s)))
  ELSE <<s>>

\* The number a string of digits denotes.
RECURSIVE DecimalValue(_)
DecimalValue(s) ==
  IF s = <<>> THEN 0 ELSE 10 * DecimalValue(SubSeq(s, 1, Len(s) - 1)) + DigitVal(s[Len(s)])
AllDigits(s) == s # <<>> /\ \A k \in 1..Len(s) : s[k] \in Digits

\* A script of one bracket selection [i1,...,ik], k <= COMMAND_PARAMS_SIZE,
\* that starts with '[' followed by a digit or '_'.
BracketItems(t) == SplitAtCommas(SubSeq(t, 2, Len(t) - 1))
IsBracketSelection(t) ==
  /\ Len(t) >= 3 /\ t[1] = "[" /\ t[Len(t)] = "]"
  /\ t[2] \in Digits \cup {"_"}
  /\ \A k \in 2..(Len(t) - 1) : t[k] \in Digits \cup {"_", ","}
  /\ Len(BracketItems(t)) <= COMMAND_PARAMS_SIZE

\* C21: the script [i1,...,ik] is parsed to one selection command named
\* "select" whose j-th string parameter is the whole text of the j-th item
\* and whose j-th integer parameter is the number the item denotes (LAST for
\* the item '_').
C21_BracketSelection ==
  (pc = "parsed" /\ IsBracketSelection(text) /\ result.err # "AllocationFailed") =>
    /\ result.err = "ok" /\ Len(result.cmds) = 1
    /\ result.cmds[1].type = SELECTION_COMMAND
    /\ result.cmds[1].name = <<"s", "e", "l", "e", "c", "t">>
    /\ \A k \in 1..Len(BracketItems(text)) :
         LET item == BracketItems(text)[k]
         IN /\ result.cmds[1].strParams[k] = item
            /\ AllDigits(item) /\ DecimalValue(item) > 0 =>
                 result.cmds[1].intParams[k] = DecimalValue(item)
            /\ item = <<"_">> => result.cmds[1].intParams[k] = LAST_ROW_COL_NUMBER

\* The tokens of a script of one command as the format prescribes them,
\* scanning from index k: an unescaped backslash is consumed and makes the
\* next byte a literal, an unescaped space ends the token.
RECURSIVE TokensFrom(_, _, _, _, _)
TokensFrom(s, k, escaped, token, tokens) ==
  IF k > Len(s) THEN Append(tokens, token)
  ELSE IF escaped THEN TokensFrom(s, k + 1, FALSE, Append(token, s[k]), tokens)
  ELSE IF s[k] = "\\" THEN TokensFrom(s, k + 1, TRUE, token, tokens)
  ELSE IF s[k] = " " THEN TokensFrom(s, k + 1, FALSE, <<>>, Append(tokens, token))
  ELSE TokensFrom(s, k + 1, FALSE, Append(token, s[k]), tokens)
Tokens(s) == TokensFrom(s, 1, FALSE, <<>>, <<>>)

\* A script of one command: a plain name, a space, and parameters made of
\* plain bytes, spaces and backslashes, the backslashes standing alone or in
\* pairs and never at the end.
IsTokenScript(t) ==
  /\ Len(t) >= 2 /\ t[1] = "a" /\ t[Len(t)] # "\\"
  /\ \A k \in 1..(Len(t) - 2) : ~(t[k] = "\\" /\ t[k + 1] = "\\" /\ t[k + 2] = "\\")
  /\ \A k \in 1..Len(t) : t[k] \in {"a", " ", "\\"}
  /\ \E k \in 2..Len(t) : t[k] = " " /\ \A m \in 1..(k - 1) : t[m] = "a"
  /\ Len(Tokens(t)) <= COMMAND_PARAMS_SIZE + 1
  /\ Len(Tokens(t)[1]) <= COMMAND_NAME_SIZE

\* C22: a space of the script separates two tokens exactly when no unescaped
\* backslash stands before it: the command's name and parameters are the
\* tokens of the script, a space behind a single backslash being a literal
\* of its parameter and a space behind two backslashes ending a parameter
\* that ends with one backslash.
C22_Tokens ==
  (pc = "parsed" /\ IsTokenScript(text) /\ result.err # "AllocationFailed") =>
    /\ result.err = "ok" /\ Len(result.cmds) = 1
    /\ result.cmds[1].name = Tokens(text)[1]
    /\ \A k \in 1..COMMAND_PARAMS_SIZE :
         result.cmds[1].strParams[k] =
           IF k + 1 <= Len(Tokens(text)) THEN Tokens(text)[k + 1] ELSE <<>>

\* ------------------------------------------------ properties of the commands

\* The live selection is one cell, and the slot the command names.
SingleCell == sel.rowFrom = sel.rowTo /\ sel.colFrom = sel.colTo
Slot == DigitVal(cmd.strParams[1][2])
OtherSlotsKept(o) ==
  \A d \in 0..(NUMBER_OF_VARIABLES - 1) : d # Slot => o.vars.data[d] = vars.data[d]

AllEmpty(row) == \A k \in 1..Len(row) : row[k] = <<>>

\* C24: with a single-cell selection (r,c) in the table, irow gives a table
\* of one more row whose row r is empty and as wide as the table, with the
\* rows before r in place and the rows from r on moved down by one, and
\* keeps the selection; when the command is done (the cell that was at (r,c)
\* now standing at (r+1,c)) the selection is still (r,c) and row r is empty,
\* and a set Z at a single-cell selection writes Z into that cell and nothing
\* else.
C24_InsertRow ==
  /\ (/\ pc = "call" /\ cmd.name = "irow" /\ SingleCell
      /\ Rectangular(table) /\ Contained(sel, table)) =>
       \A b \in Budgets : \A o \in irow(cmd, table, WithCursor, vars, b) :
         o.err = "ok" =>
           /\ Len(o.table) = Len(table) + 1
           /\ Len(o.table[i]) = Width(table) /\ AllEmpty(o.table[i])
           /\ \A k \in 1..Len(table) :
                o.table[IF k < i THEN k ELSE k + 1] = table[k]
           /\ Rect(o.sel) = Rect(sel)
  /\ (/\ AtStepBoundary /\ cmd.name = "irow" /\ Len(log) = 1
      /\ Rectangular(table) /\ InTable(table, log[1][1] + 1, log[1][2])) =>
       Rect(sel) = OneCell(log[1]) /\ AllEmpty(table[log[1][1]])
  /\ (/\ pc = "call" /\ cmd.name = "set" /\ SingleCell
      /\ Rectangular(table) /\ Contained(sel, table)) =>
       \A b \in Budgets : \A o \in setEdit(cmd, table, WithCursor, vars, b) :
         o.err = "ok" => o.table = [table EXCEPT ![i][j] = cmd.strParams[1]]

\* irow; set x on the one-row table (1, a) with the selection (1,1): the new
\* first row holds x in its cell (1,1) only, the old row is the second.
C24_Witness ==
  /\ AtStepBoundary /\ cmd.name = "set" /\ cmdNo = 2
  /\ Rect(sel) = OneCell(<<1, 1>>)
  /\ table = <<<<<<"x">>, <<>>>>, <<<<"1">>, <<"a">>>>>>

\* C25: with a single-cell selection in the table, drow applied to what irow
\* made, at the same cursor, gives back the table as it was (row count,
\* width and every cell), and so does dcol applied to what icol made.
C25_InsertDelete ==
  (/\ pc = "call" /\ cmd.name \in {"irow", "icol"} /\ SingleCell
   /\ Rectangular(table) /\ Contained(sel, table)) =>
    \A b \in Budgets :
      /\ cmd.name = "irow" =>
           \A o \in irow(cmd, table, WithCursor, vars, b) :
             o.err = "ok" =>
               \A d \in drow(cmd, o.table, [o.sel EXCEPT !.curRow = i, !.curCol = j], o.vars, b) :
                 d.err = "ok" /\ d.table = table /\ Rect(d.sel) = Rect(sel)
      /\ cmd.name = "icol" =>
           \A o \in icol(cmd, table, WithCursor, vars, b) :
             o.err = "ok" =>
               \A d \in dcol(cmd, o.table, [o.sel EXCEPT !.curRow = i, !.curCol = j], o.vars, b) :
                 d.err = "ok" /\ d.table = table /\ Rect(d.sel) = Rect(sel)

\* drow called right after irow on the one-row table (1, a): it gives the
\* table back.
C25_Witness ==
  /\ pc = "call" /\ cmd.name = "drow" /\ cmdNo = 2 /\ SingleCell /\ <<i, j>> = <<1, 1>>
  /\ table = <<<<<<>>, <<>>>>, <<<<"1">>, <<"a">>>>>>
  /\ \A d \in drow(cmd, table, WithCursor, vars, Unlimited) :
       d.err = "ok" /\ d.table = <<<<<<"1">>, <<"a">>>>>>

\* The largest 1-based index, over all rows, of a cell that is not empty; 0
\* when every cell is empty.
LargestNonEmpty(t) ==
  LET used == {c \in 1..Width(t) : \E r \in 1..Len(t) : c <= Len(t[r]) /\ Len(t[r][c]) # 0}
  IN IF used = {} THEN 0 ELSE CHOOSE c \in used : \A d \in used : d <= c

\* What trimming is to leave of the table t.
Trimmed(t) == [r \in 1..Len(t) |-> SubSeq(t[r], 1, LargestNonEmpty(t))]

\* The table main hands to saveTableToFile.
AtSave == pc = "save" /\ Len(table) >= 1 /\ Rectangular(table)

\* C26: trimRows on a rectangular table of at least one row keeps the number
\* of rows, makes the width of every row the largest index of a non-empty
\* cell (0 when all are empty), keeps the cells that remain, and applied a
\* second time changes nothing.
C26_TrimRows ==
  AtSave =>
    \A d \in trimRows(table) :
      /\ d.err = "ok"
      /\ d.t = Trimmed(table)
      /\ trimRows(d.t) = {[t |-> d.t, err |-> "ok"]}

\* The same for the runs of trimRows that come back.
C26_WhenReturned ==
  AtSave =>
    \A d \in trimRows(table) :
      d.err = "ok" => d.t = Trimmed(table) /\ trimRows(d.t) = {[t |-> d.t, err |-> "ok"]}

\* The same for the tables that have nothing to trim.
C26_NothingToTrim ==
  (AtSave /\ LargestNonEmpty(table) = Width(table)) =>
    trimRows(table) = {[t |-> table, err |-> "ok"]}

\* C30: every call of deleteColumnFromTable made by trimRows passes a column
\* number c with 1 <= c <= the current width, and removes the current last
\* column.
C30_TrimCalls ==
  AtSave =>
    \A c \in TrimCalls(table) :
      /\ 1 <= c.columnNumber /\ c.columnNumber <= Width(c.t)
      /\ \A d \in deleteColumnFromTable(c.t, c.columnNumber) :
           /\ d.err = "ok"
           /\ d.t = [r \in 1..Len(c.t) |-> SubSeq(c.t[r], 1, Width(c.t) - 1)]

\* What the calls do pass: the current width plus one.
C30_OnePastTheWidth ==
  AtSave => \A c \in TrimCalls(table) : c.columnNumber = Width(c.t) + 1

\* A select [R,C] or [R1,C1,R2,C2] with numbers for the first corner is
\* about to be applied to a rectangular table.
AtNumericSelect ==
  /\ pc = "call" /\ cmd.name = "select"
  /\ cmd.intParams[1] >= 1 /\ cmd.intParams[2] >= 1
  /\ Len(table) >= 1 /\ Rectangular(table)

\* The table t has been grown to hold the selection s, every row alike.
GrownFor(t, s) ==
  Rectangular(t) /\ s.rowTo <= Len(t) /\ s.colTo <= Width(t)

\* C27: an allocation failure while a select grows the table is propagated:
\* whatever allocation fails, the select either returns an error (and the
\* dispatcher halts) or has grown the table completely; it never reports
\* success with only a part of the growth done.
C27_GrowthFailurePropagated ==
  AtNumericSelect =>
    \A b \in Budgets : \A o \in standardSelect(cmd, table, WithCursor, vars, b) :
      o.err = "ok" => GrownFor(o.table, o.sel)

\* The same with allocation never failing.
C27_NoFailure ==
  AtNumericSelect =>
    \A o \in standardSelect(cmd, table, WithCursor, vars, Unlimited) :
      o.err = "ok" => GrownFor(o.table, o.sel)

\* The same for the inserting commands: irow, arow, icol and acol never
\* report success with rows of different widths.
C27_Inserts ==
  (/\ pc = "call" /\ cmd.name \in {"irow", "arow", "icol", "acol"}
   /\ Rectangular(table) /\ Contained(sel, table)) =>
    \A b \in Budgets :
      \A o \in (CASE cmd.name = "irow" -> irow(cmd, table, WithCursor, vars, b)
                  [] cmd.name = "arow" -> arow(cmd, table, WithCursor, vars, b)
                  [] cmd.name = "icol" -> icol(cmd, table, WithCursor, vars, b)
                  [] OTHER -> acol(cmd, table, WithCursor, vars, b)) :
        o.err = "ok" => Rectangular(o.table)

\* C28: a window select [R1,C1,_,_] with 1 <= R1 <= rows and 1 <= C1 <= cols
\* succeeds and sets the selection to rows R1..rows, columns C1..cols of the
\* table at that moment.
C28_WindowToLast ==
  (/\ pc = "call" /\ cmd.name = "select"
   /\ cmd.intParams[3] = LAST_ROW_COL_NUMBER /\ cmd.intParams[4] = LAST_ROW_COL_NUMBER
   /\ Len(table) >= 1 /\ Rectangular(table)
   /\ 1 <= cmd.intParams[1] /\ cmd.intParams[1] <= Len(table)
   /\ 1 <= cmd.intParams[2] /\ cmd.intParams[2] <= Width(table)) =>
    \A b \in Budgets : \A o \in standardSelect(cmd, table, WithCursor, vars, b) :
      /\ o.err = "ok"
      /\ Rect(o.sel) = [rowFrom |-> cmd.intParams[1], rowTo |-> Len(table),
                        colFrom |-> cmd.intParams[2], colTo |-> Width(table)]

\* What the program does with every such select: it is rejected.
C28_Rejected ==
  (/\ pc = "call" /\ cmd.name = "select"
   /\ cmd.intParams[3] = LAST_ROW_COL_NUMBER /\ cmd.intParams[4] = LAST_ROW_COL_NUMBER
   /\ cmd.intParams[1] >= 1 /\ cmd.intParams[2] >= 1) =>
    \A b \in Budgets : \A o \in standardSelect(cmd, table, WithCursor, vars, b) :
      o.err = "BadSelection"

\* A handler of a command that is iterated over the selection's cells is
\* called with the cursor and the selection inside a rectangular table, and
\* the dispatcher calls it again for the next cell.
NextInvocation ==
  /\ pc = "call" /\ cmd.type # SELECTION_COMMAND
  /\ Rectangular(table) /\ Contained(sel, table) /\ InTable(table, i, j)
  /\ pc' = "call" /\ status' = "running"

\* C29: during the per-cell iteration of a command the cursor designates, at
\* each handler invocation, an existing cell of the table as it is at that
\* moment; in particular drow and dcol iterated over several rows or columns
\* are never called with a row or column outside 1..size.
C29_CursorInTable ==
  [][NextInvocation => InTable(table', i', j')]_vars_all

\* The same for every command but drow and dcol.
C29_WithoutDeletes ==
  [][(NextInvocation /\ cmd.name \notin {"drow", "dcol"}) => InTable(table', i', j')]_vars_all

====
